---- MODULE Spec2Model ----
(***************************************************************************)
(* Model of the LEVM orchestrator, crates/vm/levm/src/vm.rs: the VM state  *)
(* built by VM::new, and VM::execute / VM::stateless_execute /             *)
(* VM::run_execution with the rollback helpers restore_state and           *)
(* restore_cache_state.                                                    *)
(*                                                                         *)
(* Code of the crate that vm.rs calls but that lives in other files        *)
(* (hooks, opcode handlers, handle_return, Account, the cache module) is   *)
(* modelled                                                                *)
(* from the design document and is marked as such where it is defined.     *)
(***************************************************************************)
EXTENDS Integers, Sequences, FiniteSets, TLC

(***************************************************************************)
(* Bounds of the model.                                                    *)
(***************************************************************************)
\* env.gas_limit of the transaction; every opcode step costs one unit.
GasLimit == 4
\* deepest nested frame the CALL/CREATE opcodes may push (root has depth 0).
MaxDepth == 1
\* most hooks a VM runs with when a caller has extended its hook list.
MaxHooks == 2

(***************************************************************************)
(* Addresses, forks, accounts.                                             *)
(***************************************************************************)
\* The number of precompile addresses per fork range (constants of the crate:
\* three strictly increasing ceilings).
SIZE_PRECOMPILES_PRE_CANCUN == 9
SIZE_PRECOMPILES_CANCUN == 10
SIZE_PRECOMPILES_PRAGUE == 17

\* Address::from_low_u64_be(i) for the low-numbered addresses.
LowAddresses ==
    <<"0x01", "0x02", "0x03", "0x04", "0x05", "0x06", "0x07", "0x08", "0x09",
      "0x0a", "0x0b", "0x0c", "0x0d", "0x0e", "0x0f", "0x10", "0x11", "0x12">>
Address_from_low_u64_be(i) == LowAddresses[i]

Origin == "origin"
Target == "target"
Other == "other"
Pre == Address_from_low_u64_be(1)
Addr == {Origin, Target, Other, Pre}

\* The forks the guards of vm.rs name, oldest first (plus one older one).
ForkOrder == <<"Tangerine", "SpuriousDragon", "Shanghai", "Cancun", "Prague", "Osaka">>
ForkRank(f) == CHOOSE i \in 1..Len(ForkOrder) : ForkOrder[i] = f
ForkGE(f, g) == ForkRank(f) >= ForkRank(g)
\* The forks the transactions of the model run under.
Forks == {"Tangerine", "SpuriousDragon", "Prague"}

\* Option<Account>::None in a CacheBackup; also "not in db.cache".
None == [is_some |-> FALSE]

\* A map with no keys (HashMap::new()).
EmptyMap == [a \in {} |-> None]

\* An account's code is not a delegation designation.
NoDelegation == "none"

\* An account: balance, nonce, whether it has code, the address its code
\* delegates to (if its code is a delegation designation) and its storage,
\* key -> [original_value, current_value].
AccountWith(b, n, c, d, st) ==
    [is_some |-> TRUE, balance |-> b, nonce |-> n, has_code |-> c,
     delegation |-> d, storage |-> st]
Account(b, n, c) == AccountWith(b, n, c, NoDelegation, EmptyMap)
EmptyAccount == Account(0, 0, FALSE)
StorageSlot(original, current) == [original_value |-> original, current_value |-> current]

has_code_or_nonce(acc) == acc.has_code \/ acc.nonce # 0

\* Faulty variant: the Cancun arm is tried before the Prague arm.
max_precompile_address_cancun_first(fork) ==
    IF ForkGE(fork, "Cancun") THEN [ok |-> TRUE, v |-> SIZE_PRECOMPILES_CANCUN]
    ELSE IF ForkGE(fork, "Prague") THEN [ok |-> TRUE, v |-> SIZE_PRECOMPILES_PRAGUE]
    ELSE IF ~ForkGE(fork, "Cancun") THEN [ok |-> TRUE, v |-> SIZE_PRECOMPILES_PRE_CANCUN]
    ELSE [ok |-> FALSE, err |-> "Internal:InvalidSpecId"]

\* Faulty variant: the Cancun guard is strict, which leaves Cancun itself to
\* the fallback arm.
max_precompile_address_strict_cancun(fork) ==
    IF ForkGE(fork, "Prague") THEN [ok |-> TRUE, v |-> SIZE_PRECOMPILES_PRAGUE]
    ELSE IF ForkGE(fork, "Cancun") /\ fork # "Cancun" THEN [ok |-> TRUE, v |-> SIZE_PRECOMPILES_CANCUN]
    ELSE IF ~ForkGE(fork, "Cancun") THEN [ok |-> TRUE, v |-> SIZE_PRECOMPILES_PRE_CANCUN]
    ELSE [ok |-> FALSE, err |-> "Internal:InvalidSpecId"]

\* VM::new l.210-215: the precompile address ceiling of a fork.
max_precompile_address(fork) ==
    IF ForkGE(fork, "Prague") THEN [ok |-> TRUE, v |-> SIZE_PRECOMPILES_PRAGUE]
    ELSE IF ForkGE(fork, "Cancun") THEN [ok |-> TRUE, v |-> SIZE_PRECOMPILES_CANCUN]
    ELSE IF ~ForkGE(fork, "Cancun") THEN [ok |-> TRUE, v |-> SIZE_PRECOMPILES_PRE_CANCUN]
    ELSE [ok |-> FALSE, err |-> "Internal:InvalidSpecId"]

\* is_precompile(&code_address, fork): the low-numbered reserved addresses,
\* up to the ceiling of the fork.
is_precompile(a, fork) ==
    \E i \in 1..max_precompile_address(fork).v : a = Address_from_low_u64_be(i)

VARIABLES
    \* --- the VM and what it borrows
    store,              \* db.store: the state provider under the cache
    cache,              \* db.cache: Addr -> Account or None (not cached)
    call_frames,        \* VM.call_frames
    env,                \* VM.env: origin, gas_limit, fork, refunded_gas, transient_storage
    accrued_substate,   \* VM.accrued_substate
    tx,                 \* the Transaction VM::new was given: kind, to, value
    hooks,              \* VM.hooks
    return_data,        \* VM.return_data
    backups,            \* VM.backups
    \* --- the position inside execute / stateless_execute and their locals
    pc,                 \* where control is
    entry,              \* which entry point was called
    hook_i,             \* index of the hook the prepare / finalize loop is at
    cache_backup,       \* stateless_execute's local cache_backup
    report,             \* the local `report` of execute / run_execution
    result,             \* what the entry point returned
    popped,             \* run_execution's local current_call_frame, once popped
    \* --- outside the VM
    config,             \* the EVMConfig under construction and what it was built from
    rpc,                \* the RPC server's handling of one HTTP request
    \* --- history variables (not program state)
    h_pre,              \* db.cache when the entry point was called
    h_trace,            \* the steps execute has performed, in order
    h_frames,           \* per call frame: db.cache when the frame was pushed
    h_backups,          \* per StateBackup: the live values when it was pushed
    h_last              \* what the last frame completion did

vars == <<store, cache, call_frames, env, accrued_substate, tx, hooks,
          return_data, backups, pc, entry, hook_i, cache_backup, report, result,
          popped, config, rpc, h_pre, h_trace, h_frames, h_backups, h_last>>

vm_vars == <<call_frames, env, accrued_substate, return_data, backups>>
static_vars == <<store, tx, hooks, config, rpc>>
hist_vars == <<h_pre, h_trace, h_frames, h_backups, h_last>>

NoReport == [is_some |-> FALSE]
NoResult == [is_some |-> FALSE]
Ok(r) == [is_some |-> TRUE, ok |-> TRUE, report |-> r]
Err(e) == [is_some |-> TRUE, ok |-> FALSE, err |-> e]
NoLast == [op |-> "none"]

Ev(name, i) == [ev |-> name, i |-> i]

Min(a, b) == IF a <= b THEN a ELSE b

\* Last element / all but the last of a non-empty sequence (Vec::last, Vec::pop).
Last(s) == s[Len(s)]
Front(s) == SubSeq(s, 1, Len(s) - 1)
SetLast(s, x) == [s EXCEPT ![Len(s)] = x]

(***************************************************************************)
(* db.cache and the per-frame cache backup.                                *)
(***************************************************************************)
\* cache::insert_account / cache::remove_account
insert_account(c, a, account) == [c EXCEPT ![a] = account]
remove_account(c, a) == [c EXCEPT ![a] = None]

\* What an account lookup answers: the cached entry, else the store's.
get_account(c, a) == IF c[a] # None THEN c[a] ELSE store[a]

\* get_account_mut, first half: an account is loaded into the cache on its
\* first mutable access.
load_account(c, a) == IF c[a] # None THEN c ELSE insert_account(c, a, store[a])

\* get_account_mut, second half: the frame's cache_backup records the cache
\* entry (or its absence) the first time the frame touches the address.
backup_account(cb, c, a) == IF a \in DOMAIN cb THEN cb ELSE cb @@ (a :> c[a])

increase_account_balance(c, a, v) ==
    LET l == load_account(c, a) IN [l EXCEPT ![a].balance = @ + v]
decrease_account_balance(c, a, v) ==
    LET l == load_account(c, a) IN [l EXCEPT ![a].balance = @ - v]
increment_account_nonce(c, a) ==
    LET l == load_account(c, a) IN [l EXCEPT ![a].nonce = @ + 1]
update_account_bytecode(c, a) ==
    LET l == load_account(c, a) IN [l EXCEPT ![a].has_code = TRUE]

\* Faulty variant: accounts recorded as absent are left in the cache.
restore_cache_state_keep_new(c, call_frame_backup) ==
    [a \in Addr |->
        IF a \in DOMAIN call_frame_backup /\ call_frame_backup[a] # None
        THEN call_frame_backup[a]
        ELSE c[a]]

\* VM::restore_cache_state
restore_cache_state(c, call_frame_backup) ==
    [a \in Addr |->
        IF a \in DOMAIN call_frame_backup
        THEN IF call_frame_backup[a] # None
             THEN insert_account(c, a, call_frame_backup[a])[a]
             ELSE remove_account(c, a)[a]
        ELSE c[a]]

\* The orders in which a HashMap with the key set S can be iterated.
Orders(S) ==
    {o \in [1..Cardinality(S) -> S] : \A i, j \in 1..Cardinality(S) : o[i] = o[j] => i = j}

\* Faulty variant: the loop ends after the first entry recorded as absent.
RECURSIVE restore_cache_state_until_absent(_, _, _, _)
restore_cache_state_until_absent(c, call_frame_backup, order, k) ==
    IF k = 0 THEN c
    ELSE LET before == restore_cache_state_until_absent(c, call_frame_backup, order, k - 1)
             a == order[k]
         IN IF \E i \in 1..(k - 1) : call_frame_backup[order[i]] = None
            THEN before
            ELSE IF call_frame_backup[a] # None
                 THEN insert_account(before, a, call_frame_backup[a])
                 ELSE remove_account(before, a)

\* VM::restore_cache_state as the loop it is: the first k entries of the
\* backup, visited in the given order, applied to cache c one after another.
RECURSIVE restore_cache_state_in_order(_, _, _, _)
restore_cache_state_in_order(c, call_frame_backup, order, k) ==
    IF k = 0 THEN c
    ELSE LET before == restore_cache_state_in_order(c, call_frame_backup, order, k - 1)
             a == order[k]
         IN IF call_frame_backup[a] # None
            THEN insert_account(before, a, call_frame_backup[a])
            ELSE remove_account(before, a)

\* StateBackup::new
StateBackup_new(substate, refunded_gas, transient_storage) ==
    [substate |-> substate, refunded_gas |-> refunded_gas,
     transient_storage |-> transient_storage]

\* The three values a StateBackup copies, as they are now (for the history).
LiveView ==
    [substate |-> accrued_substate, refunded_gas |-> env.refunded_gas,
     transient_storage |-> env.transient_storage]

\* Faulty variant: the transient storage is not put back.
restore_state_no_transient(c, e, sub, backup, call_frame_backup) ==
    [cache |-> restore_cache_state(c, call_frame_backup),
     accrued_substate |-> backup.substate,
     env |-> [e EXCEPT !.refunded_gas = backup.refunded_gas]]

\* VM::restore_state: the new (db.cache, accrued_substate, env).
restore_state(c, e, sub, backup, call_frame_backup) ==
    [cache |-> restore_cache_state(c, call_frame_backup),
     accrued_substate |-> backup.substate,
     env |-> [e EXCEPT !.refunded_gas = backup.refunded_gas,
                       !.transient_storage = backup.transient_storage]]

(***************************************************************************)
(* The state VM::new leaves behind.                                        *)
(***************************************************************************)
\* CallFrame::new(msg_sender, to, code_address, bytecode, msg_value, calldata,
\*                is_static, gas_limit, gas_used, depth, create_op_called)
CallFrame_new(msg_sender, to, code_address, bytecode, msg_value, is_static, gas_limit, gas_used, depth, create_op_called) ==
    [msg_sender |-> msg_sender, to |-> to, code_address |-> code_address,
     bytecode |-> bytecode, msg_value |-> msg_value, is_static |-> is_static,
     gas_limit |-> gas_limit, gas_used |-> gas_used, depth |-> depth,
     create_op_called |-> create_op_called, pc |-> 0, cache_backup |-> EmptyMap]

\* The account states the address of a Create may be found in: free, with a
\* nonce, with code.
CreateTargetStates == {EmptyAccount, Account(0, 1, FALSE), Account(0, 0, TRUE)}
\* The account states the recipient of a Call may be found in: an
\* externally-owned account, a contract.
CallTargetStates == {EmptyAccount, Account(0, 0, TRUE)}
TargetStates(t) == IF t.kind = "Create" THEN CreateTargetStates ELSE CallTargetStates

\* The transactions of the model: kind, recipient (for a Create the address
\* derived from sender and nonce), value, and whether it is a
\* PrivilegedL2Transaction.
ValuePrivileged == {<<0, FALSE>>, <<1, FALSE>>, <<1, TRUE>>}
Tx(kind, to, value, privileged, access_list) ==
    [kind |-> kind, to |-> to, value |-> value, privileged |-> privileged,
     access_list |-> access_list]
Transactions ==
    {Tx("Call", Target, vp[1], vp[2], <<>>) : vp \in ValuePrivileged}
    \cup {Tx("Call", Pre, 1, FALSE, <<>>)}
    \cup {Tx("Create", Target, vp[1], vp[2], <<>>) : vp \in ValuePrivileged}

\* The accounts an earlier transaction left in db.cache.
Cached == {Origin}

\* HashMap::insert: a value already stored under the key is replaced.
map_insert(m, k, v) == [x \in DOMAIN m \cup {k} |-> IF x = k THEN v ELSE m[x]]

\* The addresses of an access list, a list of <<address, keys>>.
access_list_addresses(al) == {al[i][1] : i \in 1..Len(al)}

\* Faulty variant: the coinbase is warm whatever the fork.
default_touched_accounts_coinbase_always(e, al) ==
    {e.origin} \cup {e.coinbase}
    \cup access_list_addresses(al)
    \cup {Address_from_low_u64_be(i) : i \in 1..max_precompile_address(e.fork).v}

\* Faulty variant: the access list warms storage slots only, not addresses.
default_touched_accounts_without_access_list(e, al) ==
    {e.origin}
    \cup (IF ForkGE(e.fork, "Shanghai") THEN {e.coinbase} ELSE {})
    \cup {Address_from_low_u64_be(i) : i \in 1..max_precompile_address(e.fork).v}

\* VM::new l.189-218, the warm addresses before the recipient is added:
\* origin, coinbase from Shanghai on, the access list's addresses, the
\* precompiles 1..=max_precompile_address.
default_touched_accounts(e, al) ==
    {e.origin}
    \cup (IF ForkGE(e.fork, "Shanghai") THEN {e.coinbase} ELSE {})
    \cup access_list_addresses(al)
    \cup {Address_from_low_u64_be(i) : i \in 1..max_precompile_address(e.fork).v}

\* VM::new l.197-207, the warm storage slots: for each entry of the access
\* list in turn, the set of its keys is inserted under its address.
RECURSIVE default_touched_storage_slots(_)
default_touched_storage_slots(al) ==
    IF al = <<>> THEN EmptyMap
    ELSE LET entry_ == al[Len(al)]
             keys == entry_[2]
             warm_slots == {keys[i] : i \in 1..Len(keys)}
         IN map_insert(default_touched_storage_slots(Front(al)), entry_[1], warm_slots)

\* Faulty variant: the slots' original values are left as they are.
reset_original_values_skipped(c) == c

\* VM::new l.220-225: every slot of every cached account has its original
\* value set to its current value.
reset_original_values(c) ==
    [a \in DOMAIN c |->
        IF c[a] = None THEN None
        ELSE [c[a] EXCEPT !.storage =
                 [k \in DOMAIN c[a].storage |->
                     StorageSlot(c[a].storage[k].current_value,
                                 c[a].storage[k].current_value)]]]

\* Faulty variant: the default hook is installed whatever the transaction.
hooks_for_default_only(privileged) == <<"DefaultHook">>

\* VM::new, the hook set.
hooks_for(privileged) == IF privileged THEN <<"L2Hook">> ELSE <<"DefaultHook">>

\* eip7702_get_code(db, substate, address): the code an account runs, which
\* is the code of the account it delegates to when its own code is a
\* delegation designation.
eip7702_get_code(c, substate, address) ==
    LET account == get_account(c, address)
    IN IF account.delegation # NoDelegation
       THEN [is_delegation |-> TRUE, code_address |-> account.delegation,
             bytecode |-> get_account(c, account.delegation).has_code,
             substate |-> substate]
       ELSE [is_delegation |-> FALSE, code_address |-> address,
             bytecode |-> account.has_code, substate |-> substate]

\* The largest nonce an origin has when a VM is constructed.
MaxNonce == 1

\* calculate_create_address(sender, nonce): one address per sender and nonce.
CreateAddresses ==
    [a \in {Origin, Other} |->
        IF a = Origin THEN <<Target, "created_a1", "created_a2">>
        ELSE <<"created_b0", "created_b1", "created_b2">>]
calculate_create_address(sender, nonce) == CreateAddresses[sender][nonce + 1]

Substate(selfdestruct_set, touched_accounts, touched_storage_slots, created_accounts) ==
    [selfdestruct_set |-> selfdestruct_set, touched_accounts |-> touched_accounts,
     touched_storage_slots |-> touched_storage_slots,
     created_accounts |-> created_accounts]

\* What VM::new returns when it fails: the error, and db.cache as it left it.
VM_new_Err(e, c) == [ok |-> FALSE, err |-> e, cache |-> c]

\* Faulty variant: the root frame runs the target's own code.
VM_new_call_unresolved(e, c, t, touched, slots, hs) ==
    [ok |-> TRUE, cache |-> c,
     call_frames |-> <<CallFrame_new(e.origin, t.to, t.to, get_account(c, t.to).has_code,
                                     t.value, FALSE, e.gas_limit, 0, 0, FALSE)>>,
     accrued_substate |-> Substate({}, touched \cup {t.to}, slots, {}),
     hooks |-> hs, return_data |-> <<>>, backups |-> <<>>]

\* VM::new l.234-274, the Call arm.
VM_new_call(e, c, t, touched, slots, hs) ==
    LET substate == Substate({}, touched \cup {t.to}, slots, {})
        code == eip7702_get_code(c, substate, t.to)
        initial_call_frame ==
            CallFrame_new(e.origin, t.to, t.to, code.bytecode, t.value, FALSE,
                          e.gas_limit, 0, 0, FALSE)
    IN [ok |-> TRUE, cache |-> c, call_frames |-> <<initial_call_frame>>,
        accrued_substate |-> code.substate, hooks |-> hs,
        return_data |-> <<>>, backups |-> <<>>]

\* Faulty variant: the sender's nonce is incremented at construction.
VM_new_create_bumps_nonce(e, c, t, touched, slots, hs, address_ok) ==
    LET new_contract_address ==
            calculate_create_address(e.origin, get_account(c, e.origin).nonce)
    IN [ok |-> TRUE, cache |-> increment_account_nonce(c, e.origin),
        call_frames |-> <<CallFrame_new(e.origin, new_contract_address,
                                        new_contract_address, FALSE, t.value, FALSE,
                                        e.gas_limit, 0, 0, FALSE)>>,
        accrued_substate |->
            Substate({}, touched \cup {new_contract_address}, slots,
                     {new_contract_address}),
        hooks |-> hs, return_data |-> <<>>, backups |-> <<>>]

\* Faulty variant: the new address is not recorded as created.
VM_new_create_not_recorded(e, c, t, touched, slots, hs, address_ok) ==
    LET new_contract_address ==
            calculate_create_address(e.origin, get_account(c, e.origin).nonce)
    IN [ok |-> TRUE, cache |-> c,
        call_frames |-> <<CallFrame_new(e.origin, new_contract_address,
                                        new_contract_address, FALSE, t.value, FALSE,
                                        e.gas_limit, 0, 0, FALSE)>>,
        accrued_substate |->
            Substate({}, touched \cup {new_contract_address}, slots, {}),
        hooks |-> hs, return_data |-> <<>>, backups |-> <<>>]

\* Faulty variant: the address is derived from the nonce the sender has once
\* the prepare hook has incremented it.
VM_new_create_next_nonce(e, c, t, touched, slots, hs, address_ok) ==
    LET sender_nonce == get_account(c, e.origin).nonce + 1
        new_contract_address == calculate_create_address(e.origin, sender_nonce)
        initial_call_frame ==
            CallFrame_new(e.origin, new_contract_address, new_contract_address,
                          FALSE, t.value, FALSE, e.gas_limit, 0, 0, FALSE)
    IN IF ~address_ok
       THEN VM_new_Err("Internal:CouldNotComputeCreateAddress", c)
       ELSE [ok |-> TRUE, cache |-> c, call_frames |-> <<initial_call_frame>>,
             accrued_substate |->
                 Substate({}, touched \cup {new_contract_address}, slots,
                          {new_contract_address}),
             hooks |-> hs, return_data |-> <<>>, backups |-> <<>>]

\* VM::new l.275-315, the Create arm; address_ok: calculate_create_address
\* returned an address.
VM_new_create(e, c, t, touched, slots, hs, address_ok) ==
    LET sender_nonce == get_account(c, e.origin).nonce
        new_contract_address == calculate_create_address(e.origin, sender_nonce)
        initial_call_frame ==
            CallFrame_new(e.origin, new_contract_address, new_contract_address,
                          FALSE, t.value, FALSE, e.gas_limit, 0, 0, FALSE)
    IN IF ~address_ok
       THEN VM_new_Err("Internal:CouldNotComputeCreateAddress", c)
       ELSE [ok |-> TRUE, cache |-> c, call_frames |-> <<initial_call_frame>>,
             accrued_substate |->
                 Substate({}, touched \cup {new_contract_address}, slots,
                          {new_contract_address}),
             hooks |-> hs, return_data |-> <<>>, backups |-> <<>>]

\* VM::new(env, db, tx) on db.cache = c; db_ok: the state provider answered
\* the account lookup, address_ok: the create address could be computed.
VM_new(e, c, t, db_ok, address_ok) ==
    LET ceiling == max_precompile_address(e.fork)
        touched == default_touched_accounts(e, t.access_list)
        slots == default_touched_storage_slots(t.access_list)
        c1 == reset_original_values(c)
        hs == hooks_for(t.privileged)
    IN IF ~ceiling.ok THEN VM_new_Err(ceiling.err, c)
       ELSE IF ~db_ok THEN VM_new_Err("DatabaseError", c1)
       ELSE IF t.kind = "Call" THEN VM_new_call(e, c1, t, touched, slots, hs)
       ELSE VM_new_create(e, c1, t, touched, slots, hs, address_ok)

Init ==
    \E t \in Transactions, fork \in Forks :
      \E ts \in TargetStates(t) :
        LET e == [origin |-> Origin, coinbase |-> Other, gas_limit |-> GasLimit,
                  fork |-> fork, refunded_gas |-> 0, transient_storage |-> EmptyMap]
        IN
        /\ store = [a \in Addr |->
                      CASE a = Origin -> Account(GasLimit + 1, 0, FALSE)
                        [] a = Target -> ts
                        [] a = Other -> Account(0, 0, TRUE)
                        [] OTHER -> EmptyAccount]
        /\ cache = [a \in Addr |-> IF a \in Cached THEN store[a] ELSE None]
        /\ env = e
        /\ tx = t
        /\ hooks = <<>>
        /\ call_frames = <<>>
        /\ accrued_substate = Substate({}, {}, EmptyMap, {})
        /\ return_data = <<>>
        /\ backups = <<>>
        /\ pc = "construct"
        /\ entry = "none"
        /\ hook_i = 0
        /\ cache_backup = None
        /\ report = NoReport
        /\ result = NoResult
        /\ popped = None
        /\ config = None
        /\ rpc = None
        /\ h_pre = cache
        /\ h_trace = <<>>
        /\ h_frames = <<>>
        /\ h_backups = <<>>
        /\ h_last = NoLast

\* Faulty variant: the error is turned into the report of a revert.
downgrade(e) ==
    Ok([result |-> [kind |-> "Revert", reason |-> e], gas_used |-> 0,
        gas_refunded |-> 0, logs |-> <<>>, output |-> <<>>])

\* The `?` on an internal error: the function returns it as its error.
propagate(e) == Err(e)

\* VM::new returns Ok(VM).
VM_new_ok ==
    /\ pc = "construct"
    /\ LET vm == VM_new(env, cache, tx, TRUE, TRUE)
       IN /\ vm.ok
          /\ cache' = vm.cache
          /\ hooks' = vm.hooks
          /\ call_frames' = vm.call_frames
          /\ accrued_substate' = vm.accrued_substate
          /\ return_data' = vm.return_data
          /\ backups' = vm.backups
          /\ h_frames' = <<vm.cache>>
    /\ pc' = "new"
    /\ UNCHANGED <<store, env, tx, entry, hook_i, cache_backup, report, result,
                   popped, config, rpc, h_pre, h_trace, h_backups, h_last>>

\* VM::new returns an error: the state provider failed to answer the lookup
\* of an account that is not cached, or the create address could not be
\* computed.
VM_new_err ==
    /\ pc = "construct"
    /\ \E db_ok \in BOOLEAN, address_ok \in BOOLEAN :
         /\ ~db_ok => cache[IF tx.kind = "Call" THEN tx.to ELSE env.origin] = None
         /\ LET vm == VM_new(env, cache, tx, db_ok, address_ok)
            IN /\ ~vm.ok
               /\ cache' = vm.cache
               /\ result' = propagate(vm.err)
         /\ h_last' = [op |-> "new_err", db_ok |-> db_ok, address_ok |-> address_ok]
    /\ pc' = "new_failed"
    /\ UNCHANGED <<store, env, tx, hooks, call_frames, accrued_substate, return_data,
                   backups, entry, hook_i, cache_backup, report, popped, config, rpc,
                   h_pre, h_trace, h_frames, h_backups>>

\* VM.tx_kind, copied from the transaction, and VM::is_create
tx_kind == tx.kind
is_create == tx_kind = "Create"

(***************************************************************************)
(* Hooks.  What a hook does to accounts is a list of account operations,   *)
(* each going through get_account_mut in the current call frame; a hook    *)
(* that fails has performed some prefix of its list.                       *)
(***************************************************************************)
AccOp(op, a, v) == [op |-> op, a |-> a, v |-> v]

apply_op(c, o) ==
    CASE o.op = "credit" -> increase_account_balance(c, o.a, o.v)
      [] o.op = "debit" -> decrease_account_balance(c, o.a, o.v)
      [] o.op = "nonce" -> increment_account_nonce(c, o.a)
      [] o.op = "code" -> update_account_bytecode(c, o.a)

\* The first k operations of ops applied to cache c by a frame whose
\* cache_backup is cb: the new cache and cache_backup.
RECURSIVE apply_ops(_, _, _, _)
apply_ops(c, cb, ops, k) ==
    IF k = 0 THEN [cache |-> c, cache_backup |-> cb]
    ELSE LET before == apply_ops(c, cb, ops, k - 1)
             o == ops[k]
         IN [cache |-> apply_op(before.cache, o),
             cache_backup |-> backup_account(before.cache_backup, before.cache, o.a)]

\* Hook::prepare_execution: the sender pays the up-front cost (gas and value)
\* and has its nonce incremented; a Call's value is credited to the recipient.
prepare_ops(f) ==
    <<AccOp("debit", f.msg_sender, env.gas_limit + f.msg_value),
      AccOp("nonce", f.msg_sender, 0)>>
    \o (IF is_create THEN <<>> ELSE <<AccOp("credit", f.to, f.msg_value)>>)

\* Hook::finalize_execution: a failed transaction's value goes back to the
\* sender, and the sender is refunded the gas that was not used.
finalize_ops(r) ==
    (IF r.result.kind # "Success"
     THEN <<AccOp("credit", env.origin, tx.value)>>
          \o (IF is_create THEN <<>> ELSE <<AccOp("debit", tx.to, tx.value)>>)
     ELSE <<>>)
    \o <<AccOp("credit", env.origin, env.gas_limit - r.gas_used)>>

(***************************************************************************)
(* VM::stateless_execute and VM::execute, up to the interpreter loop.      *)
(***************************************************************************)
Step(name, i) == h_trace' = Append(h_trace, Ev(name, i))

\* A caller calls vm.execute().
call_execute ==
    /\ pc = "new"
    /\ pc' = "prepare"
    /\ entry' = "execute"
    /\ hook_i' = 1
    /\ h_pre' = cache
    /\ h_last' = NoLast
    /\ UNCHANGED <<cache, vm_vars, static_vars, popped, cache_backup, report, result,
                   h_trace, h_frames, h_backups>>

\* A caller calls vm.stateless_execute(): the cache is cloned, then execute
\* is called.
call_stateless_execute ==
    /\ pc = "new"
    /\ pc' = "prepare"
    /\ entry' = "stateless_execute"
    /\ cache_backup' = cache
    /\ hook_i' = 1
    /\ h_pre' = cache
    /\ h_last' = NoLast
    /\ UNCHANGED <<cache, vm_vars, static_vars, popped, report, result,
                   h_trace, h_frames, h_backups>>

\* prepare_execution: the prepare phase of hook hook_i succeeds.  For a Create
\* the init code becomes the root frame's bytecode here.
prepare_hook_ok ==
    /\ pc = "prepare"
    /\ LET f == Last(call_frames)
           ops == prepare_ops(f)
           r == apply_ops(cache, f.cache_backup, ops, Len(ops))
       IN /\ cache' = r.cache
          /\ call_frames' =
               SetLast(call_frames,
                       [f EXCEPT !.cache_backup = r.cache_backup,
                                 !.bytecode = IF is_create THEN TRUE ELSE @])
    /\ hook_i' = hook_i + 1
    /\ pc' = IF hook_i = Len(hooks) THEN "clear" ELSE "prepare"
    /\ Step("prepare", hook_i)
    /\ h_last' = NoLast
    /\ UNCHANGED <<env, accrued_substate, return_data, backups, static_vars, popped, entry,
                   cache_backup, report, result, h_pre, h_frames, h_backups>>

\* prepare_execution: the prepare phase of hook hook_i fails, after some of
\* its account operations.
prepare_hook_err ==
    /\ pc = "prepare"
    /\ LET f == Last(call_frames)
           ops == prepare_ops(f)
       IN \E k \in 0..Len(ops) :
            LET r == apply_ops(cache, f.cache_backup, ops, k)
            IN /\ cache' = r.cache
               /\ call_frames' =
                    SetLast(call_frames, [f EXCEPT !.cache_backup = r.cache_backup])
    /\ pc' = "prepare_failed"
    /\ Step("prepare_err", hook_i)
    /\ h_last' = NoLast
    /\ UNCHANGED <<env, accrued_substate, return_data, backups, static_vars, popped, entry,
                   hook_i, cache_backup, report, result, h_pre, h_frames, h_backups>>

\* Faulty variant: the failed prepare phase is not cleaned up.
execute_prepare_failed_no_cleanup ==
    /\ pc = "prepare_failed"
    /\ result' = Err("PrepareError")
    /\ pc' = "returned"
    /\ Step("restore_cache_state", Cardinality(DOMAIN Last(call_frames).cache_backup))
    /\ h_last' = NoLast
    /\ UNCHANGED <<cache, vm_vars, static_vars, popped, entry, hook_i, cache_backup, report,
                   h_pre, h_frames, h_backups>>

\* Faulty variant: the failed prepare phase falls through to the finalize hooks.
execute_prepare_failed_finalize ==
    /\ pc = "prepare_failed"
    /\ cache' = restore_cache_state(cache, Last(call_frames).cache_backup)
    /\ report' = [result |-> [kind |-> "Revert", reason |-> "PrepareError"],
                  gas_used |-> env.gas_limit, gas_refunded |-> 0,
                  logs |-> <<>>, output |-> <<>>]
    /\ pc' = "finalize"
    /\ hook_i' = 1
    /\ Step("restore_cache_state", Cardinality(DOMAIN Last(call_frames).cache_backup))
    /\ h_last' = NoLast
    /\ UNCHANGED <<vm_vars, static_vars, popped, entry, cache_backup, result,
                   h_pre, h_frames, h_backups>>

\* execute, l.403-407: the prepare phase failed; the root frame's cache
\* backup is applied and the error is returned.
execute_prepare_failed ==
    /\ pc = "prepare_failed"
    /\ cache' = restore_cache_state(cache, Last(call_frames).cache_backup)
    /\ result' = Err("PrepareError")
    /\ pc' = "returned"
    /\ Step("restore_cache_state", Cardinality(DOMAIN Last(call_frames).cache_backup))
    /\ h_last' = NoLast
    /\ UNCHANGED <<vm_vars, static_vars, popped, entry, hook_i, cache_backup, report,
                   h_pre, h_frames, h_backups>>

\* Faulty variant: the root frame's cache backup is kept after the prepare phase.
kept_cache_backup(cb) == cb

\* execute, l.413: the root frame's cache backup after the prepare phase.
cleared_cache_backup(cb) == EmptyMap

\* Faulty variant: execute goes on without clearing the cache backup.
execute_skips_clear_cache_backup ==
    /\ pc = "clear"
    /\ pc' = IF is_create THEN "create" ELSE "push_backup"
    /\ h_frames' = <<cache>>
    /\ h_last' = NoLast
    /\ UNCHANGED <<cache, vm_vars, static_vars, popped, entry, hook_i, cache_backup, report,
                   result, h_pre, h_trace, h_backups>>

\* execute, l.409-413
execute_clear_cache_backup ==
    /\ pc = "clear"
    /\ LET f == Last(call_frames)
       IN call_frames' =
            SetLast(call_frames,
                    [f EXCEPT !.cache_backup = cleared_cache_backup(f.cache_backup)])
    /\ pc' = IF is_create THEN "create" ELSE "push_backup"
    /\ Step("clear_cache_backup", 0)
    /\ h_frames' = <<cache>>
    /\ h_last' = NoLast
    /\ UNCHANGED <<cache, env, accrued_substate, return_data, backups, static_vars, popped,
                   entry, hook_i, cache_backup, report, result, h_pre, h_backups>>

\* Faulty variant: the report is built with no gas used.
address_already_occupied_report_no_gas(e) ==
    [result |-> [kind |-> "Revert", reason |-> "AddressAlreadyOccupied"],
     gas_used |-> 0, gas_refunded |-> 0, logs |-> <<>>, output |-> <<>>]

\* handle_create_non_empty_account, l.463-469: the report it builds.
address_already_occupied_report(e) ==
    [result |-> [kind |-> "Revert", reason |-> "AddressAlreadyOccupied"],
     gas_used |-> e.gas_limit, gas_refunded |-> 0, logs |-> <<>>, output |-> <<>>]

\* Faulty variant: the report is returned without the finalize phase.
execute_create_occupied_no_finalize ==
    /\ pc = "create"
    /\ LET f == Last(call_frames)
           a == f.to
           c1 == load_account(cache, a)
       IN /\ has_code_or_nonce(c1[a])
          /\ cache' = c1
          /\ call_frames' =
               SetLast(call_frames,
                       [f EXCEPT !.cache_backup = backup_account(@, cache, a)])
    /\ report' = address_already_occupied_report(env)
    /\ result' = Ok(report')
    /\ pc' = "returned"
    /\ Step("occupied", 0)
    /\ h_last' = NoLast
    /\ UNCHANGED <<env, accrued_substate, return_data, backups, static_vars, popped, entry,
                   hook_i, cache_backup, h_pre, h_frames, h_backups>>

\* Faulty variant: the value is credited before the occupancy check.
execute_create_occupied_credit ==
    /\ pc = "create"
    /\ LET f == Last(call_frames)
           a == f.to
           c1 == load_account(cache, a)
       IN /\ has_code_or_nonce(c1[a])
          /\ cache' = increase_account_balance(c1, a, f.msg_value)
          /\ call_frames' =
               SetLast(call_frames,
                       [f EXCEPT !.cache_backup = backup_account(@, cache, a)])
    /\ report' = address_already_occupied_report(env)
    /\ pc' = "finalize"
    /\ hook_i' = 1
    /\ Step("occupied", 0)
    /\ h_last' = NoLast
    /\ UNCHANGED <<env, accrued_substate, return_data, backups, static_vars, popped, entry,
                   cache_backup, result, h_pre, h_frames, h_backups>>

\* execute, l.417-423 and handle_create_non_empty_account up to its call of
\* finalize_execution: a Create whose address has code or a nonce.
execute_create_occupied ==
    /\ pc = "create"
    /\ LET f == Last(call_frames)
           a == f.to
           c1 == load_account(cache, a)
       IN /\ has_code_or_nonce(c1[a])
          /\ cache' = c1
          /\ call_frames' =
               SetLast(call_frames,
                       [f EXCEPT !.cache_backup = backup_account(@, cache, a)])
    /\ report' = address_already_occupied_report(env)
    /\ pc' = "finalize"
    /\ hook_i' = 1
    /\ Step("occupied", 0)
    /\ h_last' = [op |-> "create", address |-> Last(call_frames).to, cache_before |-> cache]
    /\ UNCHANGED <<env, accrued_substate, return_data, backups, static_vars, popped, entry,
                   cache_backup, result, h_pre, h_frames, h_backups>>

\* Faulty variant: the nonce is incremented from a later fork on.
create_new_account_late(c, a, value, fork) ==
    LET credited == increase_account_balance(c, a, value)
    IN IF ForkGE(fork, "Shanghai")
       THEN increment_account_nonce(credited, a)
       ELSE credited

\* execute, l.425-433: the new account is credited the message value and,
\* from SpuriousDragon on, has its nonce incremented.
create_new_account(c, a, value, fork) ==
    LET credited == increase_account_balance(c, a, value)
    IN IF ForkGE(fork, "SpuriousDragon")
       THEN increment_account_nonce(credited, a)
       ELSE credited

\* execute, l.417-434: a Create whose address is free.
execute_create_free ==
    /\ pc = "create"
    /\ LET f == Last(call_frames)
           a == f.to
           c1 == load_account(cache, a)
       IN /\ ~has_code_or_nonce(c1[a])
          /\ cache' = create_new_account(c1, a, f.msg_value, env.fork)
          /\ call_frames' =
               SetLast(call_frames,
                       [f EXCEPT !.cache_backup = backup_account(@, cache, a)])
    /\ pc' = "push_backup"
    /\ Step("create_account", 0)
    /\ h_last' = [op |-> "create", address |-> Last(call_frames).to, cache_before |-> cache]
    /\ UNCHANGED <<env, accrued_substate, return_data, backups, static_vars, popped, entry,
                   hook_i, cache_backup, report, result, h_pre, h_frames, h_backups>>

\* Faulty variant: the root context pushes its StateBackup twice.
execute_push_two_backups ==
    /\ pc = "push_backup"
    /\ LET backup == StateBackup_new(accrued_substate, env.refunded_gas,
                                     env.transient_storage)
       IN backups' = Append(Append(backups, backup), backup)
    /\ h_backups' = Append(Append(h_backups, LiveView), LiveView)
    /\ pc' = "run_execution"
    /\ Step("push_backup", 0)
    /\ h_last' = NoLast
    /\ UNCHANGED <<cache, call_frames, env, accrued_substate, return_data, static_vars, popped,
                   entry, hook_i, cache_backup, report, result, h_pre, h_frames>>

\* execute, l.436-442
execute_push_backup ==
    /\ pc = "push_backup"
    /\ backups' = Append(backups,
                         StateBackup_new(accrued_substate, env.refunded_gas,
                                         env.transient_storage))
    /\ h_backups' = Append(h_backups, LiveView)
    /\ pc' = "run_execution"
    /\ Step("push_backup", 0)
    /\ h_last' = NoLast
    /\ UNCHANGED <<cache, call_frames, env, accrued_substate, return_data, static_vars, popped,
                   entry, hook_i, cache_backup, report, result, h_pre, h_frames>>

(***************************************************************************)
(* VM::run_execution.  Opcodes are abstracted to what they do to the       *)
(* orchestrator's state; each costs one unit of gas.  A frame's bytecode   *)
(* is TRUE when it is not empty; empty code can only halt.                 *)
(***************************************************************************)
current_call_frame == Last(call_frames)

Success == [kind |-> "Success", reason |-> "none"]
Revert(reason) == [kind |-> "Revert", reason |-> reason]

\* The report of a frame that halted.
success_report(f, e) ==
    [result |-> Success, gas_used |-> f.gas_used, gas_refunded |-> e.refunded_gas,
     logs |-> <<>>, output |-> <<>>]

\* The report of a frame that failed: a REVERT keeps the unused gas, any
\* other error consumes the frame's whole budget.
error_report(f, e, reason) ==
    [result |-> Revert(reason),
     gas_used |-> IF reason = "RevertOpcode" THEN f.gas_used ELSE f.gas_limit,
     gas_refunded |-> e.refunded_gas, logs |-> <<>>, output |-> <<>>]

\* A successful sub-call's first-touch records pass to the caller, whose own
\* records win: what the caller must put back if it fails later.
merge_cache_backup(parent_cb, child_cb) ==
    [a \in DOMAIN parent_cb \cup DOMAIN child_cb |->
        IF a \in DOMAIN parent_cb THEN parent_cb[a] ELSE child_cb[a]]

\* handle_return, parent exists: the caller frame after the sub-call's result
\* has been folded in.
caller_after_return(parent, f, r) ==
    [parent EXCEPT !.gas_used = @ + r.gas_used,
                   !.cache_backup = IF r.result.kind = "Success"
                                    THEN merge_cache_backup(@, f.cache_backup)
                                    ELSE @]

\* CallFrame::increment_pc_by
increment_pc_by(f, n) == [f EXCEPT !.pc = @ + n]

\* The pending continuation a CALL records.
RetData_new(f, to) ==
    [is_create |-> FALSE, to |-> to, msg_sender |-> f.to, value |-> 0,
     should_transfer_value |-> FALSE,
     max_message_call_gas |-> f.gas_limit - f.gas_used - 1]

\* The account operations and substate operations the opcodes of the model
\* perform.
OpcodeAccountOps == {AccOp("credit", Target, 1), AccOp("nonce", Other, 0)}
OpcodeSubstateOps == {"sstore", "tstore"}

\* run_execution, l.322: the frame is not a precompile; the loop is entered.
run_execution_enter_loop ==
    /\ pc = "run_execution"
    /\ ~is_precompile(current_call_frame.code_address, env.fork)
    /\ pc' = "loop"
    /\ Step("loop", 0)
    /\ h_last' = NoLast
    /\ UNCHANGED <<cache, vm_vars, static_vars, popped, entry, hook_i, cache_backup, report,
                   result, h_pre, h_frames, h_backups>>

\* The report handle_precompile_result builds for the popped frame f.
precompile_report(f, precompile_ok, restored_env) ==
    IF precompile_ok
    THEN success_report([f EXCEPT !.gas_used = Min(1, f.gas_limit)], env)
    ELSE error_report(f, restored_env, "PrecompileError")

\* run_execution, l.322-327: the frame's code address is a precompile; the
\* frame is popped and the precompile is run on it.
run_execution_precompile_pop ==
    /\ pc = "run_execution"
    /\ is_precompile(current_call_frame.code_address, env.fork)
    /\ \E precompile_ok \in BOOLEAN :
         popped' = [is_some |-> TRUE, frame |-> current_call_frame,
                    precompile_ok |-> precompile_ok, entry_cache |-> Last(h_frames)]
    /\ call_frames' = Front(call_frames)
    /\ h_frames' = Front(h_frames)
    /\ pc' = "precompile"
    /\ Step("precompile", 0)
    /\ h_last' = [op |-> "pop", frames_before |-> call_frames]
    /\ UNCHANGED <<cache, env, accrued_substate, return_data, backups, static_vars,
                   entry, hook_i, cache_backup, report, result, h_pre, h_backups>>

\* run_execution, l.328-336: the frame's StateBackup is popped, the result
\* becomes a report (a failure goes through restore_state), handle_return
\* folds it in, and the current frame's program counter is advanced.
run_execution_precompile_return ==
    /\ pc = "precompile"
    /\ LET f == popped.frame
           precompile_ok == popped.precompile_ok
           backup == Last(backups)
           restored == restore_state(cache, env, accrued_substate, backup, f.cache_backup)
           rep == precompile_report(f, precompile_ok, restored.env)
       IN /\ backups' = Front(backups)
          /\ h_backups' = Front(h_backups)
          /\ cache' = IF precompile_ok THEN cache ELSE restored.cache
          /\ accrued_substate' =
               IF precompile_ok THEN accrued_substate ELSE restored.accrued_substate
          /\ env' = IF precompile_ok THEN env ELSE restored.env
          /\ IF call_frames = <<>>
             THEN \* handle_return has no caller to resume; l.335 finds no frame
                  /\ call_frames' = call_frames
                  /\ return_data' = return_data
                  /\ result' = propagate("Internal:CouldNotAccessLastCallframe")
                  /\ report' = report
                  /\ pc' = "returned"
                  /\ hook_i' = hook_i
             ELSE /\ call_frames' =
                       SetLast(call_frames,
                               increment_pc_by(caller_after_return(Last(call_frames), f, rep), 1))
                  /\ return_data' = Front(return_data)
                  /\ result' = result
                  /\ report' = rep
                  /\ pc' = "finalize"
                  /\ hook_i' = 1
          /\ h_last' = [op |-> IF precompile_ok THEN "precompile_ok" ELSE "precompile_err",
                        frame |-> f, cache_before |-> cache,
                        entry_cache |-> popped.entry_cache, view |-> Last(h_backups),
                        live_before |-> LiveView, report |-> rep,
                        frames |-> call_frames, backups |-> backups]
    /\ popped' = None
    /\ UNCHANGED <<static_vars, entry, cache_backup, h_pre, h_frames, h_trace>>

\* Faulty variant: the program counter moves by one whatever the increment.
Continue_by_one(frames, bks, pc_increment) ==
    /\ call_frames' = SetLast(frames, increment_pc_by(Last(frames), 1))
    /\ backups' = bks
    /\ pc' = "loop"
    /\ h_last' = [op |-> "continue", pc_increment |-> pc_increment,
                  frames |-> frames, backups |-> bks]

\* l.345-347, Continue{pc_increment}: the handler has left the frame stack
\* frames and the backup stack bks; the current frame's program counter is
\* advanced and the loop goes on.
Continue(frames, bks, pc_increment) ==
    /\ call_frames' = SetLast(frames, increment_pc_by(Last(frames), pc_increment))
    /\ backups' = bks
    /\ pc' = "loop"
    /\ h_last' = [op |-> "continue", pc_increment |-> pc_increment,
                  frames |-> frames, backups |-> bks]

\* Faulty variant: a jump that costs no gas and leads back to where the
\* frame has been before.
op_plain_without_gas ==
    /\ pc = "loop"
    /\ LET f == current_call_frame
       IN /\ f.bytecode /\ f.gas_used < f.gas_limit
          /\ call_frames' = SetLast(call_frames, [f EXCEPT !.pc = (@ + 2) % 4])
    /\ h_last' = NoLast
    /\ UNCHANGED <<cache, env, accrued_substate, return_data, backups, static_vars, popped,
                   pc, entry, hook_i, cache_backup, report, result, h_pre, h_trace,
                   h_frames, h_backups>>

\* An opcode that touches nothing but the frame: Continue{2}.
op_plain ==
    /\ pc = "loop"
    /\ LET f == current_call_frame
       IN /\ f.bytecode /\ f.gas_used < f.gas_limit
          /\ Continue(SetLast(call_frames, [f EXCEPT !.gas_used = @ + 1]), backups, 2)
    /\ UNCHANGED <<cache, env, accrued_substate, return_data, static_vars, popped,
                   entry, hook_i, cache_backup, report, result, h_pre, h_trace,
                   h_frames, h_backups>>

\* An opcode that changes an account: Continue{1}.
op_account ==
    /\ pc = "loop"
    /\ \E o \in OpcodeAccountOps :
        LET f == current_call_frame
            r == apply_ops(cache, f.cache_backup, <<o>>, 1)
        IN /\ f.bytecode /\ f.gas_used < f.gas_limit
           /\ cache' = r.cache
           /\ Continue(SetLast(call_frames, [f EXCEPT !.gas_used = @ + 1,
                                                      !.cache_backup = r.cache_backup]),
                       backups, 1)
    /\ UNCHANGED <<env, accrued_substate, return_data, static_vars, popped,
                   entry, hook_i, cache_backup, report, result, h_pre, h_trace,
                   h_frames, h_backups>>

\* An opcode that changes the substate, the refund counter or the transient
\* storage: Continue{1}.
op_substate ==
    /\ pc = "loop"
    /\ \E o \in OpcodeSubstateOps :
        LET f == current_call_frame
            slots == accrued_substate.touched_storage_slots
        IN /\ f.bytecode /\ f.gas_used < f.gas_limit
           /\ Continue(SetLast(call_frames, [f EXCEPT !.gas_used = @ + 1]), backups, 1)
           /\ IF o = "sstore"
              THEN /\ accrued_substate' =
                        [accrued_substate EXCEPT
                           !.touched_accounts = @ \cup {Other},
                           !.touched_storage_slots =
                               [a \in DOMAIN slots \cup {f.to} |->
                                   IF a \in DOMAIN slots THEN slots[a] \cup {1} ELSE {1}]]
                   /\ env' = [env EXCEPT !.refunded_gas = @ + 1]
              ELSE /\ accrued_substate' = accrued_substate
                   /\ env' = [env EXCEPT !.transient_storage =
                                 [a \in DOMAIN @ \cup {f.to} |->
                                     IF a \in DOMAIN @ THEN @[a] + 1 ELSE 1]]
    /\ UNCHANGED <<cache, return_data, static_vars, popped,
                   entry, hook_i, cache_backup, report, result, h_pre, h_trace,
                   h_frames, h_backups>>

\* A CALL: the handler pushes a frame, a StateBackup and a RetData, and the
\* new current frame starts at its first instruction (Continue{0}).
op_call ==
    /\ pc = "loop"
    /\ LET f == current_call_frame
           caller == [f EXCEPT !.gas_used = @ + 1]
       IN /\ f.bytecode /\ f.gas_used < f.gas_limit
          /\ f.depth < MaxDepth
          /\ Continue(Append(SetLast(call_frames, caller),
                             CallFrame_new(f.to, Other, Other,
                                           get_account(cache, Other).has_code,
                                           0, FALSE, f.gas_limit - f.gas_used - 1, 0,
                                           f.depth + 1, FALSE)),
                      Append(backups, StateBackup_new(accrued_substate, env.refunded_gas,
                                                      env.transient_storage)),
                      0)
          /\ return_data' = Append(return_data, RetData_new(f, Other))
    /\ h_backups' = Append(h_backups, LiveView)
    /\ h_frames' = Append(h_frames, cache)
    /\ UNCHANGED <<cache, env, accrued_substate, static_vars, popped,
                   entry, hook_i, cache_backup, report, result, h_pre, h_trace>>

\* A CALL at the maximum depth: no frame is pushed, the call has failed and
\* the caller continues (Continue{1}).
op_call_too_deep ==
    /\ pc = "loop"
    /\ LET f == current_call_frame
       IN /\ f.bytecode /\ f.gas_used < f.gas_limit
          /\ f.depth = MaxDepth
          /\ Continue(SetLast(call_frames, [f EXCEPT !.gas_used = @ + 1]), backups, 1)
    /\ UNCHANGED <<cache, env, accrued_substate, return_data, static_vars, popped,
                   entry, hook_i, cache_backup, report, result, h_pre, h_trace,
                   h_frames, h_backups>>

\* l.349-352 and l.361-364: the handler answered Halt or Err(error) and the
\* current frame is popped off the stack.
pop_call_frame(op, reason) ==
    /\ popped' = [is_some |-> TRUE, frame |-> current_call_frame, op |-> op,
                  reason |-> reason, entry_cache |-> Last(h_frames)]
    /\ call_frames' = Front(call_frames)
    /\ h_frames' = Front(h_frames)
    /\ pc' = op
    /\ h_last' = [op |-> "pop", frames_before |-> call_frames]
    /\ UNCHANGED <<cache, env, accrued_substate, return_data, backups, static_vars,
                   entry, hook_i, cache_backup, report, result, h_pre, h_trace,
                   h_backups>>

\* l.348-352, Ok(Halt).
op_halt_pop ==
    /\ pc = "loop"
    /\ pop_call_frame("halt", "none")

\* l.360-364, Err(error): a REVERT or a fault of a frame that runs code.
op_error_pop ==
    /\ pc = "loop"
    /\ current_call_frame.bytecode
    /\ \E reason \in {"RevertOpcode", "OutOfGas"} : pop_call_frame("error", reason)

\* Faulty variant: the caller is resumed at the call instruction itself.
ReturnFrom_no_advance(f, rep, opname) ==
    /\ backups' = Front(backups)
    /\ h_backups' = Front(h_backups)
    /\ IF call_frames = <<>>
       THEN /\ call_frames' = call_frames
            /\ return_data' = return_data
            /\ report' = rep
            /\ pc' = "finalize"
            /\ hook_i' = 1
       ELSE /\ call_frames' =
                 SetLast(call_frames, caller_after_return(Last(call_frames), f, rep))
            /\ return_data' = Front(return_data)
            /\ report' = report
            /\ pc' = "loop"
            /\ hook_i' = hook_i
    /\ h_last' = [op |-> opname, frame |-> f, cache_before |-> cache,
                  entry_cache |-> popped.entry_cache, view |-> Last(h_backups),
                  live_before |-> LiveView, report |-> rep,
                  frames |-> call_frames, backups |-> backups]
    /\ popped' = None

\* Faulty variant: the completed frame's StateBackup stays on the stack.
ReturnFrom_keeps_backup(f, rep, opname) ==
    /\ backups' = backups
    /\ h_backups' = h_backups
    /\ IF call_frames = <<>>
       THEN /\ call_frames' = call_frames
            /\ return_data' = return_data
            /\ report' = rep
            /\ pc' = "finalize"
            /\ hook_i' = 1
       ELSE /\ call_frames' =
                 SetLast(call_frames,
                         increment_pc_by(caller_after_return(Last(call_frames), f, rep), 1))
            /\ return_data' = Front(return_data)
            /\ report' = report
            /\ pc' = "loop"
            /\ hook_i' = hook_i
    /\ h_last' = [op |-> opname, frame |-> f, cache_before |-> cache,
                  entry_cache |-> popped.entry_cache, view |-> Last(h_backups),
                  live_before |-> LiveView, report |-> rep,
                  frames |-> call_frames, backups |-> backups]
    /\ popped' = None

\* What l.353-358 and l.365-370 do once the popped frame f has its report
\* rep: its StateBackup is gone, and either the caller is resumed past its
\* call instruction or the report is the loop's result.
ReturnFrom(f, rep, opname) ==
    /\ backups' = Front(backups)
    /\ h_backups' = Front(h_backups)
    /\ IF call_frames = <<>>
       THEN /\ call_frames' = call_frames
            /\ return_data' = return_data
            /\ report' = rep
            /\ pc' = "finalize"
            /\ hook_i' = 1
       ELSE /\ call_frames' =
                 SetLast(call_frames,
                         increment_pc_by(caller_after_return(Last(call_frames), f, rep), 1))
            /\ return_data' = Front(return_data)
            /\ report' = report
            /\ pc' = "loop"
            /\ hook_i' = hook_i
    /\ h_last' = [op |-> opname, frame |-> f, cache_before |-> cache,
                  entry_cache |-> popped.entry_cache, view |-> Last(h_backups),
                  live_before |-> LiveView, report |-> rep,
                  frames |-> call_frames, backups |-> backups]
    /\ popped' = None

\* l.353-358, Halt: handle_opcode_result drops the frame's StateBackup and
\* gives a created contract its code; the report takes the return route.
op_halt ==
    /\ pc = "halt"
    /\ LET f0 == popped.frame
           installs == is_create /\ f0.depth = 0
           r == IF installs
                THEN apply_ops(cache, f0.cache_backup, <<AccOp("code", f0.to, 0)>>, 1)
                ELSE [cache |-> cache, cache_backup |-> f0.cache_backup]
           f == [f0 EXCEPT !.cache_backup = r.cache_backup]
       IN /\ cache' = r.cache
          /\ ReturnFrom(f, success_report(f, env), "halt")
    /\ UNCHANGED <<env, accrued_substate, static_vars, entry, cache_backup, result,
                   h_pre, h_trace, h_frames>>

\* Faulty variant: the failed frame's report is built and handled with no
\* rollback before it.
op_error_without_rollback ==
    /\ pc = "error"
    /\ ReturnFrom(popped.frame, error_report(popped.frame, env, popped.reason), "error")
    /\ UNCHANGED <<cache, env, accrued_substate, static_vars, entry, cache_backup, result,
                   h_pre, h_trace, h_frames>>

\* l.365-370, Err: handle_opcode_error applies the frame's StateBackup and
\* its cache backup through restore_state; the report takes the return route.
op_error ==
    /\ pc = "error"
    /\ LET f == popped.frame
           restored == restore_state(cache, env, accrued_substate, Last(backups),
                                     f.cache_backup)
       IN /\ cache' = restored.cache
          /\ accrued_substate' = restored.accrued_substate
          /\ env' = restored.env
          /\ ReturnFrom(f, error_report(f, restored.env, popped.reason), "error")
    /\ UNCHANGED <<static_vars, entry, cache_backup, result, h_pre, h_trace, h_frames>>

\* l.353 and l.365, handle_opcode_result or handle_opcode_error returns an
\* internal error: run_execution and execute return it at once.
op_internal_error ==
    /\ pc \in {"halt", "error"}
    /\ result' = propagate("Internal")
    /\ pc' = "returned"
    /\ popped' = None
    /\ Step("internal_error", 0)
    /\ h_last' = NoLast
    /\ UNCHANGED <<cache, vm_vars, static_vars, entry, hook_i, cache_backup, report,
                   h_pre, h_frames, h_backups>>

(***************************************************************************)
(* finalize_execution and the return of the entry points.                  *)
(***************************************************************************)
\* The current frame's cache backup takes part in a hook's account
\* operations only while a frame is on the stack.
HookApply(ops, k) ==
    IF call_frames = <<>>
    THEN /\ cache' = apply_ops(cache, EmptyMap, ops, k).cache
         /\ call_frames' = call_frames
    ELSE LET f == current_call_frame
             r == apply_ops(cache, f.cache_backup, ops, k)
         IN /\ cache' = r.cache
            /\ call_frames' = SetLast(call_frames, [f EXCEPT !.cache_backup = r.cache_backup])

\* finalize_execution: the finalize phase of hook hook_i succeeds; it may
\* lower the refund, net it from the gas used and add a log.  After the last
\* hook execute returns Ok(report).
finalize_hook_ok ==
    /\ pc = "finalize"
    /\ HookApply(finalize_ops(report), Len(finalize_ops(report)))
    /\ \E refund \in 0..Min(report.gas_refunded, report.gas_used), log \in BOOLEAN :
        LET rep == [report EXCEPT !.gas_refunded = refund,
                                  !.gas_used = @ - refund,
                                  !.logs = IF log THEN Append(@, "hook") ELSE @]
        IN /\ report' = rep
           /\ IF hook_i = Len(hooks)
              THEN /\ result' = Ok(rep)
                   /\ pc' = "returned"
              ELSE /\ result' = result
                   /\ pc' = "finalize"
    /\ hook_i' = hook_i + 1
    /\ Step("finalize", hook_i)
    /\ h_last' = NoLast
    /\ UNCHANGED <<env, accrued_substate, return_data, backups, static_vars, popped, entry,
                   cache_backup, h_pre, h_frames, h_backups>>

\* Faulty variant: a failure of a finalize phase is dropped and the next
\* hook, or the return of the report, follows.
finalize_hook_err_ignored ==
    /\ pc = "finalize"
    /\ \E k \in 0..Len(finalize_ops(report)) : HookApply(finalize_ops(report), k)
    /\ IF hook_i = Len(hooks)
       THEN /\ result' = Ok(report)
            /\ pc' = "returned"
       ELSE /\ result' = result
            /\ pc' = "finalize"
    /\ hook_i' = hook_i + 1
    /\ Step("finalize_err", hook_i)
    /\ h_last' = NoLast
    /\ UNCHANGED <<env, accrued_substate, return_data, backups, static_vars, popped, entry,
                   cache_backup, report, h_pre, h_frames, h_backups>>

\* finalize_execution: the finalize phase of hook hook_i fails, after some
\* of its account operations; execute returns the error.
finalize_hook_err ==
    /\ pc = "finalize"
    /\ \E k \in 0..Len(finalize_ops(report)) : HookApply(finalize_ops(report), k)
    /\ result' = Err("FinalizeError")
    /\ pc' = "returned"
    /\ Step("finalize_err", hook_i)
    /\ h_last' = NoLast
    /\ UNCHANGED <<env, accrued_substate, return_data, backups, static_vars, popped, entry,
                   hook_i, cache_backup, report, h_pre, h_frames, h_backups>>

\* Faulty variant: the cache is not put back.
stateless_execute_cache_kept(c, snapshot, res) == c

\* stateless_execute, l.395-398: db.cache when stateless_execute returns.
\* `self.execute()?` returns an error before the snapshot is put back.
stateless_execute_cache(c, snapshot, res) == IF res.ok THEN snapshot ELSE c

\* execute has returned to stateless_execute, which returns.
stateless_execute_return ==
    /\ pc = "returned"
    /\ entry = "stateless_execute"
    /\ cache' = stateless_execute_cache(cache, cache_backup, result)
    /\ pc' = "done"
    /\ h_last' = NoLast
    /\ UNCHANGED <<vm_vars, static_vars, popped, entry, hook_i, cache_backup, report, result,
                   h_pre, h_trace, h_frames, h_backups>>

\* execute has returned to its caller.
execute_return ==
    /\ pc = "returned"
    /\ entry = "execute"
    /\ pc' = "done"
    /\ h_last' = NoLast
    /\ UNCHANGED <<cache, vm_vars, static_vars, popped, entry, hook_i, cache_backup, report,
                   result, h_pre, h_trace, h_frames, h_backups>>

Next ==
    \/ VM_new_ok
    \/ VM_new_err
    \/ call_execute
    \/ call_stateless_execute
    \/ prepare_hook_ok
    \/ prepare_hook_err
    \/ execute_prepare_failed
    \/ execute_clear_cache_backup
    \/ execute_create_occupied
    \/ execute_create_free
    \/ execute_push_backup
    \/ run_execution_enter_loop
    \/ run_execution_precompile_pop
    \/ run_execution_precompile_return
    \/ op_plain
    \/ op_account
    \/ op_substate
    \/ op_call
    \/ op_call_too_deep
    \/ op_halt_pop
    \/ op_error_pop
    \/ op_halt
    \/ op_error
    \/ op_internal_error
    \/ finalize_hook_ok
    \/ finalize_hook_err
    \/ stateless_execute_return
    \/ execute_return

Spec == Init /\ [][Next]_vars

(***************************************************************************)
(* VM::new as an operation: the specification SpecNew starts from the      *)
(* arguments of VM::new (an environment, a transaction, a database with    *)
(* its cache) and constructs the VM, or fails.                             *)
(***************************************************************************)
NewForks == {ForkOrder[i] : i \in 1..Len(ForkOrder)}
NewOrigins == {Origin, Other}
\* Coinbases: plain accounts, one precompile of every fork, and the address
\* that is a precompile from Cancun on only.
Coinbases == {Other, Target, Pre, Address_from_low_u64_be(SIZE_PRECOMPILES_CANCUN)}
\* Access lists: empty, one address, one address in two entries with
\* different keys, two addresses, an address just above every ceiling.
AccessLists ==
    {<<>>,
     <<<<Other, <<"k1">>>>>>,
     <<<<Other, <<"k1">>>>, <<Other, <<"k2">>>>>>,
     <<<<Target, <<"k1", "k2">>>>, <<Other, <<>>>>>>,
     <<<<Address_from_low_u64_be(SIZE_PRECOMPILES_PRAGUE + 1), <<"k1">>>>>>}
\* The storage a cached account may carry over from an earlier transaction.
Storages ==
    {EmptyMap,
     [k \in {"k1"} |-> StorageSlot(0, 1)],
     [k \in {"k1", "k2"} |-> IF k = "k1" THEN StorageSlot(0, 1) ELSE StorageSlot(2, 2)]}
\* Which accounts an earlier transaction left in db.cache.
CachedSets(origin) == {{}, {origin}, {origin, Target}}
\* Whether the target's code is a delegation designation, and to whom.
Delegations == {NoDelegation, Other}

InitNew ==
    \E fork \in NewForks, origin \in NewOrigins, coinbase \in Coinbases,
       kind \in {"Call", "Create"}, privileged \in BOOLEAN, al \in AccessLists,
       st \in Storages, nonce \in 0..MaxNonce, d \in Delegations :
      \E cached \in CachedSets(origin) :
        /\ store = [a \in Addr |->
                      CASE a = origin -> AccountWith(GasLimit + 1, nonce, FALSE, NoDelegation, st)
                        [] a = Target -> AccountWith(0, 0, TRUE, d, st)
                        [] OTHER -> EmptyAccount]
        /\ cache = [a \in Addr |-> IF a \in cached THEN store[a] ELSE None]
        /\ env = [origin |-> origin, coinbase |-> coinbase, gas_limit |-> GasLimit,
                  fork |-> fork, refunded_gas |-> 0, transient_storage |-> EmptyMap]
        /\ tx = Tx(kind,
                   IF kind = "Call" THEN Target
                                    ELSE calculate_create_address(origin, nonce),
                   1, privileged, al)
        /\ hooks = <<>>
        /\ call_frames = <<>>
        /\ accrued_substate = Substate({}, {}, EmptyMap, {})
        /\ return_data = <<>>
        /\ backups = <<>>
        /\ pc = "construct"
        /\ entry = "none"
        /\ hook_i = 0
        /\ cache_backup = None
        /\ report = NoReport
        /\ result = NoResult
        /\ popped = None
        /\ config = None
        /\ rpc = None
        /\ h_pre = cache
        /\ h_trace = <<>>
        /\ h_frames = <<>>
        /\ h_backups = <<>>
        /\ h_last = NoLast

NextNew == VM_new_ok \/ VM_new_err

SpecNew == InitNew /\ [][NextNew]_vars

(***************************************************************************)
(* The hook pipeline with several hooks.  VM::new registers one hook, and  *)
(* `hooks` is a public field of the VM (l.167): the specification          *)
(* SpecHooks starts from a VM as VM::new built it whose hook list a caller *)
(* has extended, and runs execute or stateless_execute on it.              *)
(***************************************************************************)
HookLists ==
    {[i \in 1..n |-> IF i = 1 THEN "DefaultHook" ELSE "L2Hook"] : n \in 2..MaxHooks}
HookTransactions ==
    {Tx("Call", Target, 1, FALSE, <<>>), Tx("Call", Pre, 1, FALSE, <<>>),
     Tx("Create", Target, 1, FALSE, <<>>)}

\* A VM that VM::new has built for a transaction of txs, running with a
\* hook list of lists.
InitVM(txs, lists) ==
    \E t \in txs, hs \in lists :
      \E ts \in TargetStates(t) :
        /\ store = [a \in Addr |->
                      CASE a = Origin -> Account(GasLimit + 1, 0, FALSE)
                        [] a = Target -> ts
                        [] a = Other -> Account(0, 0, TRUE)
                        [] OTHER -> EmptyAccount]
        /\ env = [origin |-> Origin, coinbase |-> Other, gas_limit |-> GasLimit,
                  fork |-> "Prague", refunded_gas |-> 0, transient_storage |-> EmptyMap]
        /\ tx = t
        /\ h_pre = [a \in Addr |-> IF a \in Cached THEN store[a] ELSE None]
        /\ LET vm == VM_new(env, h_pre, tx, TRUE, TRUE)
           IN /\ vm.ok
              /\ cache = vm.cache
              /\ call_frames = vm.call_frames
              /\ accrued_substate = vm.accrued_substate
              /\ return_data = vm.return_data
              /\ backups = vm.backups
              /\ h_frames = <<vm.cache>>
        /\ hooks = hs
        /\ pc = "new"
        /\ entry = "none"
        /\ hook_i = 0
        /\ cache_backup = None
        /\ report = NoReport
        /\ result = NoResult
        /\ popped = None
        /\ config = None
        /\ rpc = None
        /\ h_trace = <<>>
        /\ h_backups = <<>>
        /\ h_last = NoLast

InitHooks == InitVM(HookTransactions, HookLists)

NextHooks ==
    \/ call_execute
    \/ call_stateless_execute
    \/ prepare_hook_ok
    \/ prepare_hook_err
    \/ execute_prepare_failed
    \/ execute_clear_cache_backup
    \/ execute_create_occupied
    \/ execute_create_free
    \/ execute_push_backup
    \/ run_execution_enter_loop
    \/ run_execution_precompile_pop
    \/ run_execution_precompile_return
    \/ op_plain
    \/ op_account
    \/ op_substate
    \/ op_call
    \/ op_call_too_deep
    \/ op_halt_pop
    \/ op_error_pop
    \/ op_halt
    \/ op_error
    \/ op_internal_error
    \/ finalize_hook_ok
    \/ finalize_hook_err
    \/ stateless_execute_return
    \/ execute_return

SpecHooks == InitHooks /\ [][NextHooks]_vars

\* The interpreter is one synchronous thread that takes its next step
\* whenever it has one: a run does not stop while a step is possible.
InitFair == InitVM(HookTransactions, {hooks_for(FALSE)})

SpecFair == InitFair /\ [][NextHooks]_vars /\ WF_vars(NextHooks)

(***************************************************************************)
(* EVMConfig (vm.rs l.62-156): the fork and the blob schedule of a block.  *)
(***************************************************************************)
\* latest block-header timestamp a chain configuration is asked about.
MaxTimestamp == 1
Timestamps == 0..MaxTimestamp

\* The blob constants vm.rs imports from the crate's constants module; only
\* which one is chosen matters, so each stands for itself.
MAX_BLOB_COUNT == "MAX_BLOB_COUNT"
MAX_BLOB_COUNT_ELECTRA == "MAX_BLOB_COUNT_ELECTRA"
TARGET_BLOB_GAS_PER_BLOCK == "TARGET_BLOB_GAS_PER_BLOCK"
TARGET_BLOB_GAS_PER_BLOCK_PECTRA == "TARGET_BLOB_GAS_PER_BLOCK_PECTRA"
BLOB_BASE_FEE_UPDATE_FRACTION == "BLOB_BASE_FEE_UPDATE_FRACTION"
BLOB_BASE_FEE_UPDATE_FRACTION_PRAGUE == "BLOB_BASE_FEE_UPDATE_FRACTION_PRAGUE"

ForkBlobSchedule(target, max, base_fee_update_fraction) == [target |-> target, max |-> max, base_fee_update_fraction |-> base_fee_update_fraction]
Some(v) == [is_some |-> TRUE, value |-> v]

\* Faulty variant: only Prague gets the raised blob count.
max_blobs_per_block_prague_only(fork) ==
    CASE fork = "Prague" -> MAX_BLOB_COUNT_ELECTRA
      [] OTHER -> MAX_BLOB_COUNT

max_blobs_per_block(fork) ==
    CASE fork = "Prague" -> MAX_BLOB_COUNT_ELECTRA
      [] fork = "Osaka" -> MAX_BLOB_COUNT_ELECTRA
      [] OTHER -> MAX_BLOB_COUNT

get_blob_base_fee_update_fraction_value(fork) ==
    CASE fork \in {"Prague", "Osaka"} -> BLOB_BASE_FEE_UPDATE_FRACTION_PRAGUE
      [] OTHER -> BLOB_BASE_FEE_UPDATE_FRACTION

get_target_blob_gas_per_block_(fork) ==
    CASE fork \in {"Prague", "Osaka"} -> TARGET_BLOB_GAS_PER_BLOCK_PECTRA
      [] OTHER -> TARGET_BLOB_GAS_PER_BLOCK

canonical_values(fork) ==
    LET max == max_blobs_per_block(fork)
        target == get_target_blob_gas_per_block_(fork)
        base_fee_update_fraction == get_blob_base_fee_update_fraction_value(fork)
    IN ForkBlobSchedule(target, max, base_fee_update_fraction)

EVMConfig_new(fork, blob_schedule) == [fork |-> fork, blob_schedule |-> blob_schedule]

\* Option::unwrap_or_else
unwrap_or_else(option, default) == IF option.is_some THEN option.value ELSE default

\* A ChainConfig is known here by what its two methods answer for a
\* timestamp: ChainConfig::fork and ChainConfig::get_fork_blob_schedule.
ChainConfig_fork(chain_config, timestamp) == chain_config[timestamp].fork
get_fork_blob_schedule(chain_config, timestamp) == chain_config[timestamp].blob_schedule

\* Faulty variant: the schedule is looked up for the genesis timestamp.
new_from_chain_config_genesis_schedule(chain_config, block_header) ==
    LET fork == ChainConfig_fork(chain_config, block_header.timestamp)
        blob_schedule == unwrap_or_else(get_fork_blob_schedule(chain_config, 0),
                                        canonical_values(fork))
    IN EVMConfig_new(fork, blob_schedule)

new_from_chain_config(chain_config, block_header) ==
    LET fork == ChainConfig_fork(chain_config, block_header.timestamp)
        blob_schedule == unwrap_or_else(get_fork_blob_schedule(chain_config, block_header.timestamp),
                                        canonical_values(fork))
    IN EVMConfig_new(fork, blob_schedule)

\* The blob schedules a genesis file may define (EIP-7840): custom values,
\* and values that coincide with one canonical set.
CustomSchedules ==
    { ForkBlobSchedule("custom_target", "custom_max", "custom_fraction"),
      ForkBlobSchedule(TARGET_BLOB_GAS_PER_BLOCK, MAX_BLOB_COUNT, BLOB_BASE_FEE_UPDATE_FRACTION) }
ScheduleOptions == {None} \cup {Some(s) : s \in CustomSchedules}
ConfigForks == {"Shanghai", "Cancun", "Prague", "Osaka"}
ChainConfigs == [Timestamps -> [fork : ConfigForks, blob_schedule : ScheduleOptions]]

\* The calls a client makes: each with arguments drawn from the sets above.
ConfigCalls ==
    {[call |-> "canonical_values", fork |-> f] : f \in {ForkOrder[i] : i \in 1..Len(ForkOrder)}}
    \cup {[call |-> "new", fork |-> f, blob_schedule |-> s] : f \in ConfigForks, s \in CustomSchedules}
    \cup {[call |-> "new_from_chain_config", chain_config |-> c, block_header |-> [timestamp |-> t]] : c \in ChainConfigs, t \in Timestamps}

\* The VM's variables while no VM exists.
NoVM ==
    /\ store = [a \in Addr |-> EmptyAccount]
    /\ cache = [a \in Addr |-> None]
    /\ env = [origin |-> Origin, coinbase |-> Other, gas_limit |-> GasLimit,
              fork |-> "Prague", refunded_gas |-> 0, transient_storage |-> EmptyMap]
    /\ tx = None
    /\ hooks = <<>>
    /\ call_frames = <<>>
    /\ accrued_substate = Substate({}, {}, EmptyMap, {})
    /\ return_data = <<>>
    /\ backups = <<>>
    /\ pc = "idle"
    /\ entry = "none"
    /\ hook_i = 0
    /\ cache_backup = None
    /\ report = NoReport
    /\ result = NoResult
    /\ popped = None
    /\ h_pre = [a \in Addr |-> None]
    /\ h_trace = <<>>
    /\ h_frames = <<>>
    /\ h_backups = <<>>
    /\ h_last = NoLast

no_vm_vars == <<store, cache, call_frames, env, accrued_substate, tx, hooks, return_data, backups, pc, entry, hook_i, cache_backup, report, result, popped, h_pre, h_trace, h_frames, h_backups, h_last>>

InitConfig ==
    /\ NoVM
    /\ rpc = None
    /\ \E c \in ConfigCalls : config = [is_some |-> TRUE, call |-> c, returned |-> FALSE]

call_canonical_values ==
    /\ config.is_some /\ ~config.returned
    /\ config.call.call = "canonical_values"
    /\ config' = [config EXCEPT !.returned = TRUE] @@ [out |-> canonical_values(config.call.fork)]
    /\ UNCHANGED <<no_vm_vars, rpc>>

call_EVMConfig_new ==
    /\ config.is_some /\ ~config.returned
    /\ config.call.call = "new"
    /\ config' = [config EXCEPT !.returned = TRUE] @@ [out |-> EVMConfig_new(config.call.fork, config.call.blob_schedule)]
    /\ UNCHANGED <<no_vm_vars, rpc>>

call_new_from_chain_config ==
    /\ config.is_some /\ ~config.returned
    /\ config.call.call = "new_from_chain_config"
    /\ config' = [config EXCEPT !.returned = TRUE] @@ [out |-> new_from_chain_config(config.call.chain_config, config.call.block_header)]
    /\ UNCHANGED <<no_vm_vars, rpc>>

NextConfig ==
    \/ call_canonical_values
    \/ call_EVMConfig_new
    \/ call_new_from_chain_config

SpecConfig == InitConfig /\ [][NextConfig]_vars

(***************************************************************************)
(* The JSON-RPC server, crates/networking/rpc/rpc.rs: the HTTP endpoint    *)
(* (handle_http_request) and the authenticated endpoint                    *)
(* (handle_authrpc_request), in the default build (no `based`, no `l2`).   *)
(* The request handlers, RpcRequest::namespace and authenticate live in    *)
(* other files: a handler is known by its result, the namespace of a       *)
(* request by what namespace() answers for it, authenticate by its verdict.*)
(***************************************************************************)
\* most requests in one batch body.
MaxBatch == 2

Result_Ok(value) == [ok |-> TRUE, value |-> value]
Result_Err(error) == [ok |-> FALSE, error |-> error]

\* RpcErr, the variants rpc.rs builds, and the errors it only passes on.
RpcErr_MethodNotFound(method) == [kind |-> "MethodNotFound", data |-> method]
RpcErr_Internal(message) == [kind |-> "Internal", data |-> message]
RpcErr_BadParams(message) == [kind |-> "BadParams", data |-> message]
RpcErr_AuthenticationError == [kind |-> "AuthenticationError", data |-> "authenticate"]
RpcErr_UnknownNamespace(method) == [kind |-> "UnknownNamespace", data |-> method]

\* The method tables of map_eth_requests .. map_net_requests.
EthMethods ==
    {"eth_chainId", "eth_syncing", "eth_getBlockByNumber", "eth_getBlockByHash",
     "eth_getBalance", "eth_getCode", "eth_getStorageAt",
     "eth_getBlockTransactionCountByNumber", "eth_getBlockTransactionCountByHash",
     "eth_getTransactionByBlockNumberAndIndex", "eth_getTransactionByBlockHashAndIndex",
     "eth_getBlockReceipts", "eth_getTransactionByHash", "eth_getTransactionReceipt",
     "eth_createAccessList", "eth_blockNumber", "eth_call", "eth_blobBaseFee",
     "eth_getTransactionCount", "eth_feeHistory", "eth_estimateGas", "eth_getLogs",
     "eth_newFilter", "eth_uninstallFilter", "eth_getFilterChanges",
     "eth_sendRawTransaction", "eth_getProof", "eth_gasPrice", "eth_maxPriorityFeePerGas"}
DebugMethods ==
    {"debug_getRawHeader", "debug_getRawBlock", "debug_getRawTransaction", "debug_getRawReceipts"}
EngineMethods ==
    {"engine_exchangeCapabilities", "engine_forkchoiceUpdatedV1", "engine_forkchoiceUpdatedV2",
     "engine_forkchoiceUpdatedV3", "engine_newPayloadV4", "engine_newPayloadV3",
     "engine_newPayloadV2", "engine_newPayloadV1", "engine_exchangeTransitionConfigurationV1",
     "engine_getPayloadV4", "engine_getPayloadV3", "engine_getPayloadV2", "engine_getPayloadV1",
     "engine_getPayloadBodiesByHashV1", "engine_getPayloadBodiesByRangeV1"}
AdminMethods == {"admin_nodeInfo"}
Web3Methods == {"web3_clientVersion"}
NetMethods == {"net_version", "net_peerCount"}

\* What a request handler may return.
HandlerResults == {Result_Ok("result"), Result_Err(RpcErr_BadParams("handler"))}

\* One arm of a method table: the handler of a known method is called and
\* its result returned; the fallback arm returns MethodNotFound(method).
\* `calls` lists the handlers invoked, with the table they belong to.
match_method(table, methods, req, handler_result) ==
    IF req.method \in methods
    THEN [res |-> handler_result, calls |-> <<[table |-> table, handler |-> req.method, id |-> req.id]>>]
    ELSE [res |-> Result_Err(RpcErr_MethodNotFound(req.method)), calls |-> <<>>]

map_eth_requests(req, handler_result) == match_method("eth", EthMethods, req, handler_result)
map_debug_requests(req, handler_result) == match_method("debug", DebugMethods, req, handler_result)
map_engine_requests(req, handler_result) == match_method("engine", EngineMethods, req, handler_result)
map_admin_requests(req, handler_result) == match_method("admin", AdminMethods, req, handler_result)
map_web3_requests(req, handler_result) == match_method("web3", Web3Methods, req, handler_result)
map_net_requests(req, handler_result) == match_method("net", NetMethods, req, handler_result)

\* req.namespace(): Ok(namespace) or Err(rpc_err), as the request carries it.
namespace(req) == req.namespace

\* Faulty variant: the HTTP endpoint serves the Engine namespace too.
map_http_requests_with_engine(req, handler_result) ==
    LET ns == namespace(req)
    IN CASE ns = Result_Ok("Eth") -> map_eth_requests(req, handler_result)
         [] ns = Result_Ok("Admin") -> map_admin_requests(req, handler_result)
         [] ns = Result_Ok("Debug") -> map_debug_requests(req, handler_result)
         [] ns = Result_Ok("Web3") -> map_web3_requests(req, handler_result)
         [] ns = Result_Ok("Net") -> map_net_requests(req, handler_result)
         [] ns = Result_Ok("Engine") -> map_engine_requests(req, handler_result)
         [] OTHER -> [res |-> Result_Err(ns.error), calls |-> <<>>]

map_http_requests(req, handler_result) ==
    LET ns == namespace(req)
    IN CASE ns = Result_Ok("Eth") -> map_eth_requests(req, handler_result)
         [] ns = Result_Ok("Admin") -> map_admin_requests(req, handler_result)
         [] ns = Result_Ok("Debug") -> map_debug_requests(req, handler_result)
         [] ns = Result_Ok("Web3") -> map_web3_requests(req, handler_result)
         [] ns = Result_Ok("Net") -> map_net_requests(req, handler_result)
         [] ns = Result_Ok("Engine") ->
              [res |-> Result_Err(RpcErr_Internal("Engine namespace not allowed in map_http_requests")),
               calls |-> <<>>]
         [] OTHER -> [res |-> Result_Err(ns.error), calls |-> <<>>]

map_authrpc_requests(req, handler_result) ==
    LET ns == namespace(req)
    IN CASE ns = Result_Ok("Engine") -> map_engine_requests(req, handler_result)
         [] ns = Result_Ok("Eth") -> map_eth_requests(req, handler_result)
         [] OTHER -> [res |-> Result_Err(RpcErr_MethodNotFound(req.method)), calls |-> <<>>]

\* error.into(): the RpcErrorMetadata of an RpcErr.
RpcErrorMetadata_from(error) == [code |-> error.kind, message |-> error.data]

rpc_response(id, res) ==
    IF res.ok THEN [id |-> id, jsonrpc |-> "2.0", result |-> res.value]
    ELSE [id |-> id, jsonrpc |-> "2.0", error |-> RpcErrorMetadata_from(res.error)]

\* RpcRequestId: a number or a string.
RpcRequestId_Number(n) == [number |-> n]
RpcRequestId_String(s) == [string |-> s]
RequestIds == {RpcRequestId_Number(1), RpcRequestId_String("a")}

\* The requests of the model: a method, and what namespace() answers for it.
RequestKinds ==
    {[method |-> "eth_chainId", namespace |-> Result_Ok("Eth")],
     [method |-> "eth_unknownMethod", namespace |-> Result_Ok("Eth")],
     [method |-> "engine_getPayloadV1", namespace |-> Result_Ok("Engine")],
     [method |-> "engine_unknownMethod", namespace |-> Result_Ok("Engine")],
     [method |-> "admin_nodeInfo", namespace |-> Result_Ok("Admin")],
     [method |-> "debug_getRawHeader", namespace |-> Result_Ok("Debug")],
     [method |-> "web3_clientVersion", namespace |-> Result_Ok("Web3")],
     [method |-> "net_unknownMethod", namespace |-> Result_Ok("Net")],
     [method |-> "foo_bar", namespace |-> Result_Err(RpcErr_UnknownNamespace("foo_bar"))]}
RpcRequest(id, kind) == [id |-> id, method |-> kind.method, namespace |-> kind.namespace]
RpcRequests == {RpcRequest(id, kind) : id \in RequestIds, kind \in RequestKinds}

RECURSIVE SeqsUpTo(_, _)
SeqsUpTo(S, n) ==
    IF n = 0 THEN {<<>>}
    ELSE SeqsUpTo(S, n - 1) \cup {Append(s, x) : s \in {t \in SeqsUpTo(S, n - 1) : Len(t) = n - 1}, x \in S}

\* Request bodies: text that is no JSON-RPC request, one request, a batch.
Bodies ==
    {[kind |-> "invalid"]}
    \cup {[kind |-> "single", request |-> r] : r \in RpcRequests}
    \cup {[kind |-> "multiple", requests |-> rs] : rs \in SeqsUpTo(RpcRequests, MaxBatch)}

\* serde_json::from_str::<RpcRequestWrapper>(&body)
from_str_RpcRequestWrapper(body) ==
    CASE body.kind = "single" -> [ok |-> TRUE, wrapper |-> "Single", request |-> body.request]
      [] body.kind = "multiple" -> [ok |-> TRUE, wrapper |-> "Multiple", requests |-> body.requests]
      [] OTHER -> [ok |-> FALSE]

\* serde_json::from_str::<RpcRequest>(&body)
from_str_RpcRequest(body) ==
    IF body.kind = "single" THEN [ok |-> TRUE, request |-> body.request] ELSE [ok |-> FALSE]

InvalidRequestBody == rpc_response(RpcRequestId_String(""), Result_Err(RpcErr_BadParams("Invalid request body")))

InitRpc ==
    /\ NoVM
    /\ config = None
    /\ \E endpoint \in {"http", "authrpc"}, body \in Bodies :
         rpc = [is_some |-> TRUE, endpoint |-> endpoint, body |-> body, stage |-> "received",
                authenticate |-> "not_called", i |-> 0, responses |-> <<>>, calls |-> <<>>,
                response |-> None]

\* handle_http_request, l.239-242: a single request.
handle_http_request_single ==
    /\ rpc.is_some /\ rpc.endpoint = "http" /\ rpc.stage = "received"
    /\ LET parsed == from_str_RpcRequestWrapper(rpc.body)
       IN /\ parsed.ok /\ parsed.wrapper = "Single"
          /\ \E handler_result \in HandlerResults :
               LET request == parsed.request
                   r == map_http_requests(request, handler_result)
               IN rpc' = [rpc EXCEPT !.stage = "responded",
                                     !.calls = @ \o r.calls,
                                     !.response = rpc_response(request.id, r.res)]
    /\ UNCHANGED <<no_vm_vars, config>>

\* handle_http_request, l.243-244: a batch; the loop is entered.
handle_http_request_multiple ==
    /\ rpc.is_some /\ rpc.endpoint = "http" /\ rpc.stage = "received"
    /\ LET parsed == from_str_RpcRequestWrapper(rpc.body)
       IN /\ parsed.ok /\ parsed.wrapper = "Multiple"
          /\ rpc' = [rpc EXCEPT !.stage = "batch", !.i = 1, !.responses = <<>>]
    /\ UNCHANGED <<no_vm_vars, config>>

\* Faulty variant: the loop is left at the first request that fails.
handle_http_request_next_stop_on_error ==
    /\ rpc.is_some /\ rpc.stage = "batch"
    /\ rpc.i <= Len(rpc.body.requests)
    /\ \E handler_result \in HandlerResults :
         LET req == rpc.body.requests[rpc.i]
             r == map_http_requests(req, handler_result)
         IN rpc' = [rpc EXCEPT !.i = IF r.res.ok THEN @ + 1 ELSE Len(rpc.body.requests) + 1,
                               !.calls = @ \o r.calls,
                               !.responses = Append(@, rpc_response(req.id, r.res))]
    /\ UNCHANGED <<no_vm_vars, config>>

\* handle_http_request, l.245-248: one iteration of the loop over the batch.
handle_http_request_next ==
    /\ rpc.is_some /\ rpc.stage = "batch"
    /\ rpc.i <= Len(rpc.body.requests)
    /\ \E handler_result \in HandlerResults :
         LET req == rpc.body.requests[rpc.i]
             r == map_http_requests(req, handler_result)
         IN rpc' = [rpc EXCEPT !.i = @ + 1,
                               !.calls = @ \o r.calls,
                               !.responses = Append(@, rpc_response(req.id, r.res))]
    /\ UNCHANGED <<no_vm_vars, config>>

\* handle_http_request, l.249: the array of the responses is the answer.
handle_http_request_collect ==
    /\ rpc.is_some /\ rpc.stage = "batch"
    /\ rpc.i > Len(rpc.body.requests)
    /\ rpc' = [rpc EXCEPT !.stage = "responded", !.response = rpc.responses]
    /\ UNCHANGED <<no_vm_vars, config>>

\* handle_http_request, l.251-254: the body is no request and no batch.
handle_http_request_invalid ==
    /\ rpc.is_some /\ rpc.endpoint = "http" /\ rpc.stage = "received"
    /\ ~from_str_RpcRequestWrapper(rpc.body).ok
    /\ rpc' = [rpc EXCEPT !.stage = "responded", !.response = InvalidRequestBody]
    /\ UNCHANGED <<no_vm_vars, config>>

\* handle_authrpc_request, l.264-272: the body is no request.
handle_authrpc_request_invalid ==
    /\ rpc.is_some /\ rpc.endpoint = "authrpc" /\ rpc.stage = "received"
    /\ ~from_str_RpcRequest(rpc.body).ok
    /\ rpc' = [rpc EXCEPT !.stage = "responded", !.response = InvalidRequestBody]
    /\ UNCHANGED <<no_vm_vars, config>>

\* Faulty variant: the verdict of authenticate is not looked at.
handle_authrpc_request_rejected_but_served ==
    /\ rpc.is_some /\ rpc.endpoint = "authrpc" /\ rpc.stage = "received"
    /\ LET parsed == from_str_RpcRequest(rpc.body)
       IN /\ parsed.ok
          /\ \E handler_result \in HandlerResults :
               LET r == map_authrpc_requests(parsed.request, handler_result)
               IN rpc' = [rpc EXCEPT !.stage = "responded",
                                     !.authenticate = "failed",
                                     !.calls = @ \o r.calls,
                                     !.response = rpc_response(parsed.request.id, r.res)]
    /\ UNCHANGED <<no_vm_vars, config>>

\* handle_authrpc_request, l.273-274: authenticate rejects the header.
handle_authrpc_request_rejected ==
    /\ rpc.is_some /\ rpc.endpoint = "authrpc" /\ rpc.stage = "received"
    /\ LET parsed == from_str_RpcRequest(rpc.body)
       IN /\ parsed.ok
          /\ rpc' = [rpc EXCEPT !.stage = "responded",
                                !.authenticate = "failed",
                                !.response = rpc_response(parsed.request.id,
                                                          Result_Err(RpcErr_AuthenticationError))]
    /\ UNCHANGED <<no_vm_vars, config>>

\* handle_authrpc_request, l.275-279: authenticate accepts the header.
handle_authrpc_request_authenticated ==
    /\ rpc.is_some /\ rpc.endpoint = "authrpc" /\ rpc.stage = "received"
    /\ LET parsed == from_str_RpcRequest(rpc.body)
       IN /\ parsed.ok
          /\ \E handler_result \in HandlerResults :
               LET r == map_authrpc_requests(parsed.request, handler_result)
               IN rpc' = [rpc EXCEPT !.stage = "responded",
                                     !.authenticate = "ok",
                                     !.calls = @ \o r.calls,
                                     !.response = rpc_response(parsed.request.id, r.res)]
    /\ UNCHANGED <<no_vm_vars, config>>

NextRpc ==
    \/ handle_http_request_single
    \/ handle_http_request_multiple
    \/ handle_http_request_next
    \/ handle_http_request_collect
    \/ handle_http_request_invalid
    \/ handle_authrpc_request_invalid
    \/ handle_authrpc_request_rejected
    \/ handle_authrpc_request_authenticated

SpecRpc == InitRpc /\ [][NextRpc]_vars

(***************************************************************************)
(* Properties.                                                             *)
(***************************************************************************)
Returned == pc \in {"returned", "done"}
\* VM::new has returned a VM.
Constructed == pc \notin {"construct", "new_failed"}
ReturnedOk == Returned /\ result.ok
ReturnedErr(e) == Returned /\ ~result.ok /\ result.err = e
Happened(name) == \E i \in 1..Len(h_trace) : h_trace[i].ev = name
Count(name, h) == Cardinality({i \in 1..Len(h_trace) :
                                 h_trace[i].ev = name /\ h_trace[i].i = h})
AddressAlreadyOccupied == Revert("AddressAlreadyOccupied")

\* C1: when execute returned a report (Success or Revert), db.cache after
\* stateless_execute equals, entry for entry, db.cache as it was when
\* stateless_execute was called.
C1_StatelessKeepsCacheOnReport ==
    (pc = "done" /\ entry = "stateless_execute" /\ result.ok) => cache = h_pre

\* C1 witness: stateless_execute has returned the report of a transaction
\* whose body reverted after the hooks and the body changed accounts.
C1_Witness ==
    /\ pc = "done"
    /\ entry = "stateless_execute"
    /\ result.ok
    /\ result.report.result = Revert("RevertOpcode")
    /\ Happened("prepare")
    /\ Happened("loop")

\* C2 (as claimed): db.cache after stateless_execute equals the snapshot
\* taken at its start whatever execute returned, an error included.
C2_StatelessKeepsCacheAlways ==
    (pc = "done" /\ entry = "stateless_execute") => cache = h_pre

\* C3: when a nested frame fails, every account its cache backup recorded is
\* back to what db.cache held when the frame was pushed (absent if it was
\* absent), and every other account is as it was just before the failure.
C3_RevertAtomicity ==
    (h_last.op = "error" /\ h_last.frame.depth > 0) =>
        \A a \in Addr :
            IF a \in DOMAIN h_last.frame.cache_backup
            THEN cache[a] = h_last.entry_cache[a]
            ELSE cache[a] = h_last.cache_before[a]

\* C3 witness: a nested frame has failed after changing an account that was
\* not in the cache, while an account it did not touch was changed earlier
\* in the transaction body.
C3_Witness ==
    /\ h_last.op = "error"
    /\ h_last.frame.depth > 0
    /\ \E a \in DOMAIN h_last.frame.cache_backup :
         /\ h_last.frame.cache_backup[a] = None
         /\ h_last.cache_before[a] # None
         /\ cache[a] = None
    /\ \E a \in Addr \ DOMAIN h_last.frame.cache_backup :
         /\ a \in DOMAIN Last(call_frames).cache_backup
         /\ cache[a] # Last(call_frames).cache_backup[a]

\* C4: after restore_state with a StateBackup, the substate, the refund
\* counter and the transient storage equal what they were when that backup
\* was taken.
C4_BackupRestoreRoundTrip ==
    (h_last.op \in {"error", "precompile_err"}) => LiveView = h_last.view

\* C4 witness: a frame failed after the substate, the refund counter and the
\* transient storage had all been changed since its backup was taken.
C4_Witness ==
    /\ h_last.op = "error"
    /\ h_last.live_before.substate # h_last.view.substate
    /\ h_last.live_before.refunded_gas # h_last.view.refunded_gas
    /\ h_last.live_before.transient_storage # h_last.view.transient_storage

\* C5: when the prepare phase of a hook fails, execute returns that error
\* and db.cache is what it was when execute was called: accounts the hooks
\* changed are back, accounts the hooks added are gone.
C5_PrepareFailureLeavesNoMutation ==
    /\ Happened("prepare_err") /\ Returned => ReturnedErr("PrepareError")
    /\ ReturnedErr("PrepareError") => cache = h_pre

\* C5 witness: execute returned the prepare error after the cleanup put two
\* accounts back (one changed, one added by the hook).
C5_Witness ==
    /\ ReturnedErr("PrepareError")
    /\ h_trace[Len(h_trace)] = Ev("restore_cache_state", 2)
    /\ h_pre[tx.to] = None

\* C6: after a failed prepare phase execute does nothing but the cleanup and
\* the return: no StateBackup, no Create check or credit, no loop, no
\* finalize hook.
C6_PrepareFailureBypassesLoop ==
    Happened("prepare_err") =>
        /\ \A i \in 1..Len(h_trace) :
             h_trace[i].ev \in {"prepare", "prepare_err", "restore_cache_state"}
        /\ backups = <<>>
        /\ pc \in {"prepare_failed", "returned", "done"}
        /\ Returned => ReturnedErr("PrepareError")

\* C6 witness: execute has returned from a failed prepare phase of a Create.
C6_Witness == ReturnedErr("PrepareError") /\ is_create /\ pc = "done"

\* C7: the root frame's cache backup is empty right after the prepare phase,
\* and when the root frame fails db.cache is what the prepare hooks left:
\* the sender's nonce is one higher and its balance lower than before
\* execute.
C7_PrepareMutationsPreCommitted ==
    /\ (h_trace # <<>> /\ h_trace[Len(h_trace)].ev = "clear_cache_backup")
         => current_call_frame.cache_backup = EmptyMap
    /\ (h_last.op = "error" /\ h_last.frame.depth = 0) =>
         /\ cache = h_last.entry_cache
         /\ get_account(cache, env.origin).nonce
              = get_account(h_pre, env.origin).nonce + 1
         /\ get_account(cache, env.origin).balance
              = get_account(h_pre, env.origin).balance - (env.gas_limit + tx.value)

\* C7 witness: the root frame of a Call has failed after its body changed
\* an account.
C7_Witness ==
    /\ h_last.op = "error"
    /\ h_last.frame.depth = 0
    /\ h_last.cache_before # cache
    /\ tx.value = 1

C9_OccupiedNoTransfer ==
    (Happened("occupied") /\ pc = "returned") =>
        /\ get_account(cache, tx.to) = get_account(h_pre, tx.to)
        /\ get_account(cache, env.origin).nonce
             = get_account(h_pre, env.origin).nonce + 1

\* C9 witness: execute returned on the AddressAlreadyOccupied path of a
\* Create that carries value.
C9_Witness ==
    /\ Happened("occupied")
    /\ pc = "returned"
    /\ result.ok
    /\ tx.value = 1

\* C10: on the AddressAlreadyOccupied path the finalize phase of every hook
\* has run exactly once when execute returns, on the revert report, and no
\* StateBackup was pushed and the loop was not entered.
C10_OccupiedFinalizeOnly ==
    Happened("occupied") =>
        /\ backups = <<>>
        /\ ~Happened("push_backup") /\ ~Happened("loop") /\ ~Happened("precompile")
        /\ pc = "finalize" => report.result = AddressAlreadyOccupied
        /\ Returned =>
             \A h \in 1..Len(hooks) : Count("finalize", h) + Count("finalize_err", h) = 1

\* C10 witness: execute returned on the AddressAlreadyOccupied path after
\* the finalize phase.
C10_Witness ==
    /\ Happened("occupied")
    /\ ReturnedOk
    /\ Count("finalize", 1) = 1

\* C11: for a Create whose address is free, when execute is about to push
\* the StateBackup the new account's balance is what it was plus the
\* message value, its nonce is one higher from SpuriousDragon on and the same
\* before, no other account changed since the prepare phase, and neither the
\* StateBackup nor the loop has happened yet.
C11_CreateCreditAndNonce ==
    /\ (pc = "push_backup" /\ is_create) =>
         LET a == current_call_frame.to
             before == get_account(h_frames[1], a)
         IN /\ cache[a].balance = before.balance + tx.value
            /\ cache[a].nonce =
                 before.nonce + (IF ForkGE(env.fork, "SpuriousDragon") THEN 1 ELSE 0)
            /\ cache[a].has_code = before.has_code
            /\ \A b \in Addr \ {a} : cache[b] = h_frames[1][b]
            /\ backups = <<>>
            /\ ~Happened("push_backup") /\ ~Happened("loop")
            /\ h_trace[Len(h_trace)].ev = "create_account"
    /\ (is_create /\ Happened("push_backup")) => Happened("create_account")

\* C11 witness: a Create with value, at SpuriousDragon, has credited the free
\* address and is about to push the StateBackup.
C11_Witness ==
    /\ pc = "push_backup"
    /\ is_create
    /\ tx.value = 1
    /\ env.fork = "SpuriousDragon"
    /\ cache[tx.to].nonce = 1

\* C12: once the VM is built and at every step of execute the hook set is the one VM::new chose from
\* the transaction kind, exactly one L2 hook for a privileged transaction
\* and exactly one default hook otherwise, and every prepare and finalize
\* call is a call of a hook of that set.
C12_HookSetFixed ==
    Constructed =>
    /\ hooks = <<IF tx.privileged THEN "L2Hook" ELSE "DefaultHook">>
    /\ \A k \in 1..Len(h_trace) :
         h_trace[k].ev \in {"prepare", "prepare_err", "finalize", "finalize_err"}
            => h_trace[k].i \in 1..Len(hooks)

\* C12 witness: execute of a privileged transaction has returned after the
\* prepare and the finalize phase of its one L2 hook.
C12_Witness ==
    /\ tx.privileged
    /\ ReturnedOk
    /\ Count("prepare", 1) = 1
    /\ Count("finalize", 1) = 1
    /\ Happened("loop")

\* The errors of the InternalError family the model can raise.
InternalErrors ==
    {"Internal", "Internal:CouldNotAccessLastCallframe", "Internal:CouldNotPopCallframe",
     "Internal:CouldNotComputeCreateAddress", "Internal:InvalidSpecId"}
ReturnedInternalError == result # NoResult /\ ~result.ok /\ result.err \in InternalErrors

\* C20: when an internal error arises (the loop's error handler meets one,
\* a frame is accessed on the empty call-frame stack, the create address
\* cannot be computed), VM::new, run_execution and execute return an
\* internal error, never Ok with a report, so never a Revert report.
C20_InternalErrorsNotDowngraded ==
    /\ (Returned /\ Happened("internal_error")) => ReturnedInternalError
    /\ (Returned /\ Happened("precompile") /\ call_frames = <<>>) => ReturnedInternalError
    /\ (pc = "new_failed" /\ tx.kind = "Create" /\ h_last.db_ok /\ ~h_last.address_ok)
         => result = Err("Internal:CouldNotComputeCreateAddress")
    /\ (result # NoResult /\ result.ok /\ result.report.result.kind = "Revert")
         => result.report.result.reason \notin InternalErrors

\* C20 witness: execute has returned the internal error the loop's error
\* handler met in a nested frame.
C20_Witness ==
    /\ pc = "done"
    /\ entry = "execute"
    /\ Happened("internal_error")
    /\ result = Err("Internal")
    /\ call_frames # <<>>

(***************************************************************************)
(* Properties of VM::new, checked under SpecNew.                           *)
(***************************************************************************)
Touched == accrued_substate.touched_accounts
RootFrame == call_frames[1]
\* The precompile count of a fork, read off the fork names.
CeilingOf(fork) ==
    CASE fork \in {"Prague", "Osaka"} -> SIZE_PRECOMPILES_PRAGUE
      [] fork = "Cancun" -> SIZE_PRECOMPILES_CANCUN
      [] OTHER -> SIZE_PRECOMPILES_PRE_CANCUN
PrecompilesOf(fork) == {Address_from_low_u64_be(i) : i \in 1..CeilingOf(fork)}
AfterShanghai(fork) == fork \in {"Shanghai", "Cancun", "Prague", "Osaka"}

C14_PrecompileCeiling ==
    /\ SIZE_PRECOMPILES_PRE_CANCUN < SIZE_PRECOMPILES_CANCUN
    /\ SIZE_PRECOMPILES_CANCUN < SIZE_PRECOMPILES_PRAGUE
    /\ pc = "new" =>
         \A i \in 1..Len(LowAddresses) :
            LET a == Address_from_low_u64_be(i)
            IN /\ i <= CeilingOf(env.fork) => a \in Touched
               /\ (/\ i > CeilingOf(env.fork)
                   /\ a \notin {env.origin, RootFrame.to}
                   /\ a \notin access_list_addresses(tx.access_list)
                   /\ ~(AfterShanghai(env.fork) /\ a = env.coinbase))
                     => a \notin Touched

\* C14 witness: a VM built at Prague has the last Prague precompile touched
\* and the address above it not.
C14_Witness ==
    /\ pc = "new"
    /\ env.fork = "Prague"
    /\ Address_from_low_u64_be(SIZE_PRECOMPILES_PRAGUE) \in Touched
    /\ Address_from_low_u64_be(SIZE_PRECOMPILES_PRAGUE + 1) \notin Touched

\* C15 (as claimed): after VM::new, for every entry (address, keys) of the
\* access list, also when an address has several entries, the address is in
\* touched_accounts and each of its keys is in touched_storage_slots[address].
C15_AccessListWarm ==
    pc = "new" =>
        \A i \in 1..Len(tx.access_list) :
            LET address == tx.access_list[i][1]
                keys == tx.access_list[i][2]
            IN /\ address \in Touched
               /\ address \in DOMAIN accrued_substate.touched_storage_slots
               /\ \A j \in 1..Len(keys) :
                    keys[j] \in accrued_substate.touched_storage_slots[address]

\* C16: once VM::new is past the reset, and so whenever the root frame
\* exists, every slot of every account that was in the cache has its
\* original value equal to its current value, and every current value is
\* what it was when VM::new was called.
C16_OriginalValuesReset ==
    pc \in {"new", "new_failed"} =>
        \A a \in Addr :
            h_pre[a] # None =>
                /\ cache[a] # None
                /\ DOMAIN cache[a].storage = DOMAIN h_pre[a].storage
                /\ \A k \in DOMAIN cache[a].storage :
                     /\ cache[a].storage[k].current_value = h_pre[a].storage[k].current_value
                     /\ cache[a].storage[k].original_value = cache[a].storage[k].current_value

\* C16 witness: the VM was built over a cached slot whose original value
\* differed from its current value.
C16_Witness ==
    /\ pc = "new"
    /\ call_frames # <<>>
    /\ \E a \in Addr :
         /\ h_pre[a] # None
         /\ \E k \in DOMAIN h_pre[a].storage :
              /\ h_pre[a].storage[k].original_value # h_pre[a].storage[k].current_value
              /\ cache[a].storage[k].original_value = h_pre[a].storage[k].current_value

\* C17: whether VM::new returned a VM or an error, every account's balance,
\* nonce and code, and every slot's current value, are what they were when
\* it was called.
C17_ConstructionIsPureSetup ==
    pc \in {"new", "new_failed"} =>
        \A a \in Addr :
            LET now == get_account(cache, a)
                before == get_account(h_pre, a)
            IN /\ now.balance = before.balance
               /\ now.nonce = before.nonce
               /\ now.has_code = before.has_code
               /\ now.delegation = before.delegation
               /\ DOMAIN now.storage = DOMAIN before.storage
               /\ \A k \in DOMAIN now.storage :
                    now.storage[k].current_value = before.storage[k].current_value

\* C17 witness: VM::new built the VM of a Create whose origin is cached with
\* a nonce and a written slot.
C17_Witness ==
    /\ pc = "new"
    /\ tx.kind = "Create"
    /\ h_pre[env.origin] # None
    /\ h_pre[env.origin].nonce = 1
    /\ cache # h_pre

\* C18: for a Create, the root frame's recipient and code address are the
\* address computed from the origin and the origin's nonce at construction,
\* its code is empty, and that address is touched and is the one created
\* account.
C18_CreateRootFrame ==
    (pc = "new" /\ tx.kind = "Create") =>
        LET new_contract_address ==
                calculate_create_address(env.origin, get_account(h_pre, env.origin).nonce)
        IN /\ RootFrame.to = new_contract_address
           /\ RootFrame.code_address = new_contract_address
           /\ RootFrame.bytecode = FALSE
           /\ new_contract_address \in Touched
           /\ accrued_substate.created_accounts = {new_contract_address}

\* C18 witness: the VM of a Create by an origin whose nonce is 1.
C18_Witness ==
    /\ pc = "new"
    /\ tx.kind = "Create"
    /\ env.origin = Origin
    /\ get_account(h_pre, Origin).nonce = 1
    /\ RootFrame.to = "created_a1"

\* C19: VM::new leaves exactly one call frame, sent by the origin, at depth
\* 0, not static, with the environment's gas limit, and empty backup and
\* return-data stacks; for a Call the frame runs the code delegation
\* resolution finds for the target, its recipient is the target, the target
\* is touched, and nothing is created or marked for destruction.
C19_RootFrame ==
    pc = "new" =>
        /\ Len(call_frames) = 1
        /\ RootFrame.msg_sender = env.origin
        /\ RootFrame.depth = 0
        /\ ~RootFrame.is_static
        /\ RootFrame.gas_limit = env.gas_limit
        /\ RootFrame.gas_used = 0
        /\ backups = <<>>
        /\ return_data = <<>>
        /\ tx.kind = "Call" =>
             LET target == get_account(h_pre, tx.to)
             IN /\ RootFrame.bytecode =
                     (IF target.delegation = NoDelegation THEN target.has_code
                      ELSE get_account(h_pre, target.delegation).has_code)
                /\ RootFrame.to = tx.to
                /\ tx.to \in Touched
                /\ accrued_substate.created_accounts = {}
                /\ accrued_substate.selfdestruct_set = {}

\* C19 witness: the VM of a Call to an account that delegates to an account
\* without code.
C19_Witness ==
    /\ pc = "new"
    /\ tx.kind = "Call"
    /\ get_account(h_pre, tx.to).delegation = Other
    /\ get_account(h_pre, tx.to).has_code
    /\ ~RootFrame.bytecode

C23_PrecompileReturnsLikeHalt ==
    (h_last.op \in {"precompile_ok", "precompile_err"}) =>
        IF h_last.frames = <<>>
        THEN /\ call_frames = <<>>
             /\ report = h_last.report
             /\ result = NoResult
             /\ pc = "finalize"
        ELSE /\ Len(call_frames) = Len(h_last.frames)
             /\ Last(call_frames).pc = Last(h_last.frames).pc + 1

(***************************************************************************)
(* C24.  In every reachable state of an execute run, the intermediate      *)
(* states of the precompile path and of frame completion included, the     *)
(* backup stack is no deeper than the call-frame stack.                    *)
(***************************************************************************)
C24_BackupDepthBounded == Len(backups) <= Len(call_frames)

\* C24, amended: the backup stack is no deeper than the call-frame stack,
\* except between the pop of a completing frame and the pop of its
\* StateBackup (precompile path, Halt, Err, and the return of an internal
\* error raised there), where it is at most one deeper.
C24_BackupDepthBoundedBetweenCompletions ==
    /\ (pc \notin {"precompile", "halt", "error"} /\ ~Happened("internal_error"))
         => Len(backups) <= Len(call_frames)
    /\ Len(backups) <= Len(call_frames) + 1

\* C24: a nested frame has been popped on Halt and its StateBackup is still
\* on the stack, above the caller's.
C24_Witness ==
    /\ pc = "halt"
    /\ Len(call_frames) = 1
    /\ Len(backups) = 2

(***************************************************************************)
(* C25.  StateBackups are pushed and popped one to one with the execution  *)
(* contexts: while the loop runs every frame on the stack has exactly one  *)
(* backup, a completing frame pops exactly one, and when execute returns a *)
(* report the loop produced the backup stack is empty.                     *)
(***************************************************************************)
C25_BackupsOneToOne ==
    /\ pc \in {"run_execution", "loop"} => Len(backups) = Len(call_frames)
    /\ (h_last.op \in {"halt", "error", "precompile_ok", "precompile_err"})
         => backups = Front(h_last.backups)
    /\ (Happened("loop") /\ (pc = "finalize" \/ ReturnedOk)) => backups = <<>>

\* C25: execute has returned a report that the loop produced.
C25_Witness ==
    /\ pc = "done"
    /\ entry = "execute"
    /\ result.ok
    /\ Happened("push_backup")
    /\ Happened("loop")
    /\ result.report.gas_used > 1

\* What the return route leaves behind for a completed frame: with no
\* caller the stack stays empty, the loop is left and the frame's report is
\* the loop's report; with a caller the stack keeps its depth, the frames
\* below the caller are untouched, the caller's program counter is one
\* further and the loop goes on.
ReturnedLikeHalt ==
    IF h_last.frames = <<>>
    THEN /\ call_frames = <<>>
         /\ pc = "finalize"
         /\ report = h_last.report
         /\ result = NoResult
    ELSE /\ pc = "loop"
         /\ Len(call_frames) = Len(h_last.frames)
         /\ Front(call_frames) = Front(h_last.frames)
         /\ Last(call_frames).pc = Last(h_last.frames).pc + 1

(***************************************************************************)
(* C26.  On Halt exactly one frame is popped and its report computed; then *)
(* either the caller's program counter is advanced by one and the loop     *)
(* continues, or, the frame being the last, run_execution returns that     *)
(* report and no further opcode step occurs.                               *)
(***************************************************************************)
C26_HaltPopsOneFrame ==
    /\ (h_last.op = "pop" /\ pc = "halt") =>
         /\ call_frames = Front(h_last.frames_before)
         /\ popped.frame = Last(h_last.frames_before)
    /\ h_last.op = "halt" =>
         /\ h_last.report.result = Success
         /\ h_last.report.gas_used = h_last.frame.gas_used
         /\ ReturnedLikeHalt

\* C26: a nested frame has halted and its caller is resumed.
C26_Witness ==
    /\ h_last.op = "halt"
    /\ h_last.frames # <<>>
    /\ pc = "loop"
    /\ Last(call_frames).pc = 1

(***************************************************************************)
(* C27.  On an error the structure is that of Halt, except that the report *)
(* of the popped frame records the failure and that the frame's StateBackup*)
(* and cache backup are applied before the report is built and handled.    *)
(***************************************************************************)
C27_ErrorRollsBackThenReturns ==
    /\ (h_last.op = "pop" /\ pc = "error") =>
         /\ call_frames = Front(h_last.frames_before)
         /\ popped.frame = Last(h_last.frames_before)
    /\ h_last.op = "error" =>
         /\ h_last.report.result.kind = "Revert"
         /\ h_last.report.gas_refunded = h_last.view.refunded_gas
         /\ cache = restore_cache_state(h_last.cache_before, h_last.frame.cache_backup)
         /\ LiveView = h_last.view
         /\ ReturnedLikeHalt

\* C27: a nested frame has failed after changing the cache and the refund
\* counter, and its caller is resumed.
C27_Witness ==
    /\ h_last.op = "error"
    /\ h_last.frames # <<>>
    /\ pc = "loop"
    /\ h_last.cache_before # cache
    /\ h_last.live_before.refunded_gas # h_last.view.refunded_gas

C29_ErrorsBecomeReports ==
    (h_last.op \in {"error", "precompile_err"}) =>
        /\ result = NoResult
        /\ h_last.report.result.kind = "Revert"
        /\ LiveView = h_last.view
        /\ h_last.frames = <<>> => report = h_last.report

\* The steps of a run of execute that meets no failure and no occupied
\* create address, in the order of l.401-448.
ExecuteSteps ==
    [h \in 1..Len(hooks) |-> Ev("prepare", h)]
    \o <<Ev("clear_cache_backup", 0)>>
    \o (IF is_create THEN <<Ev("create_account", 0)>> ELSE <<>>)
    \o <<Ev("push_backup", 0), Ev("loop", 0)>>
    \o [h \in 1..Len(hooks) |-> Ev("finalize", h)]

\* The steps taken so far, the cache restoration of stateless_execute aside.
StepsTaken == SelectSeq(h_trace, LAMBDA e : e.ev # "restore_cache_state")

(***************************************************************************)
(* C30.  execute performs its steps in a fixed order, each exactly once:   *)
(* the prepare phase of every hook, the clearing of the root frame's cache *)
(* backup, for a Create the address check and the credit of the new        *)
(* account, the push of one StateBackup, the interpreter loop, the         *)
(* finalize phase of every hook, the return of the report; no finalize     *)
(* phase runs before the loop has produced a report.                       *)
(***************************************************************************)
C30_ExecuteStepOrder ==
    /\ LET steps == ExecuteSteps
           expected == {steps[j] : j \in 1..Len(steps)}
       IN \A k \in 1..Len(h_trace) :
            (\A i \in 1..k : h_trace[i] \in expected)
               => /\ k <= Len(steps)
                  /\ h_trace[k] = steps[k]
    /\ (ReturnedOk /\ Happened("loop")) =>
         /\ StepsTaken = ExecuteSteps
         /\ result.report = report
    /\ \A k \in 1..Len(h_trace) :
         h_trace[k].ev \in {"finalize", "finalize_err"} =>
            /\ report # NoReport
            /\ \E i \in 1..(k - 1) : h_trace[i].ev \in {"loop", "occupied"}

\* C30: execute has returned the report of a Create transaction whose
\* address was free, after the loop and the finalize phase.
C30_Witness ==
    /\ pc = "done"
    /\ entry = "execute"
    /\ result.ok
    /\ is_create
    /\ Happened("create_account")
    /\ Happened("loop")
    /\ Count("finalize", Len(hooks)) = 1

\* The hook phases run so far, in the order they ran.
PrepareSteps == SelectSeq(h_trace, LAMBDA e : e.ev \in {"prepare", "prepare_err"})
FinalizeSteps == SelectSeq(h_trace, LAMBDA e : e.ev \in {"finalize", "finalize_err"})

(***************************************************************************)
(* C31.  Hooks run in registration order in both phases.  The k-th prepare *)
(* phase run is that of hook k, and a failure is the last one run: execute *)
(* returns an error and no finalize phase runs.  The k-th finalize phase   *)
(* run is that of hook k, on the report the hooks before it left; when     *)
(* execute returns a report every hook has finalized it, and a failure of  *)
(* a finalize phase makes execute return that error and no report.         *)
(***************************************************************************)
C31_HooksInRegistrationOrder ==
    LET prep == PrepareSteps
        fin == FinalizeSteps
    IN /\ \A k \in 1..Len(prep) : prep[k].i = k /\ k <= Len(hooks)
       /\ \A k \in 1..(Len(prep) - 1) : prep[k].ev = "prepare"
       /\ (Happened("prepare_err") /\ Returned) => (~result.ok /\ fin = <<>>)
       /\ \A k \in 1..Len(fin) : fin[k].i = k /\ k <= Len(hooks)
       /\ \A k \in 1..(Len(fin) - 1) : fin[k].ev = "finalize"
       /\ fin # <<>> => (Len(prep) = Len(hooks) /\ ~Happened("prepare_err"))
       /\ ReturnedOk => (Len(fin) = Len(hooks) /\ result.report = report)
       /\ (Happened("finalize_err") /\ Returned) => result = Err("FinalizeError")

\* C31: with two hooks or more, both prepare phases and the first finalize
\* phase have run and the second finalize phase has failed; execute has
\* returned the error.
C31_Witness ==
    /\ Len(hooks) >= 2
    /\ pc = "done"
    /\ entry = "execute"
    /\ Count("prepare", 2) = 1
    /\ Count("finalize", 1) = 1
    /\ Count("finalize_err", 2) = 1
    /\ result = Err("FinalizeError")

\* run_execution has returned: with a report to execute's finalize phase,
\* or with an error to execute's caller.
RunExecutionReturned == pc \in {"finalize", "returned", "done"}

ConfigReturned(call) == config.is_some /\ config.returned /\ config.call.call = call

\* C33: canonical_values(fork) is the Pectra/Electra triple (max blob count,
\* target blob gas, base-fee update fraction) exactly for Prague and Osaka and
\* the pre-Pectra triple for every other fork; new_from_chain_config keeps the
\* fork the chain config resolves for the header timestamp, with the chain
\* config's blob schedule for that timestamp when it defines one and with the
\* canonical values of the resolved fork otherwise.
C33_CanonicalValuesAndChainConfig ==
    LET pectra == [target |-> "TARGET_BLOB_GAS_PER_BLOCK_PECTRA", max |-> "MAX_BLOB_COUNT_ELECTRA",
                   base_fee_update_fraction |-> "BLOB_BASE_FEE_UPDATE_FRACTION_PRAGUE"]
        pre_pectra == [target |-> "TARGET_BLOB_GAS_PER_BLOCK", max |-> "MAX_BLOB_COUNT",
                       base_fee_update_fraction |-> "BLOB_BASE_FEE_UPDATE_FRACTION"]
        canonical(f) == IF f = "Prague" \/ f = "Osaka" THEN pectra ELSE pre_pectra
    IN /\ ConfigReturned("canonical_values") => config.out = canonical(config.call.fork)
       /\ ConfigReturned("new_from_chain_config") =>
             LET at == config.call.chain_config[config.call.block_header.timestamp]
             IN /\ config.out.fork = at.fork
                /\ at.blob_schedule.is_some => config.out.blob_schedule = at.blob_schedule.value
                /\ ~at.blob_schedule.is_some => config.out.blob_schedule = canonical(at.fork)

\* C33 witness: a chain config that defines a schedule at genesis but none for
\* the header's later timestamp, which resolves to Osaka: the configuration
\* built carries the Pectra/Electra constants.
C33_Witness ==
    /\ ConfigReturned("new_from_chain_config")
    /\ config.call.block_header.timestamp = 1
    /\ config.call.chain_config[0].blob_schedule.is_some
    /\ ~config.call.chain_config[1].blob_schedule.is_some
    /\ config.call.chain_config[1].fork = "Osaka"
    /\ config.out.blob_schedule.max = "MAX_BLOB_COUNT_ELECTRA"

(***************************************************************************)
(* Further properties of VM::new, checked under SpecNew.                   *)
(***************************************************************************)
\* C34: whatever the fork, VM::new selects one of the three precompile
\* ceilings: when it fails, the error is never InvalidSpecId, and when it
\* succeeds the low addresses up to one of the three ceilings, and none
\* above the largest, were added as precompiles.
C34_InvalidSpecIdNeverReturned ==
    /\ pc = "new_failed" => result # Err("Internal:InvalidSpecId")
    /\ pc = "new" =>
         \E n \in {SIZE_PRECOMPILES_PRE_CANCUN, SIZE_PRECOMPILES_CANCUN, SIZE_PRECOMPILES_PRAGUE} :
            /\ \A i \in 1..n : Address_from_low_u64_be(i) \in Touched
            /\ \A i \in (n + 1)..Len(LowAddresses) :
                  Address_from_low_u64_be(i) \in Touched
                     => Address_from_low_u64_be(i) \in {env.origin, env.coinbase, RootFrame.to} \cup access_list_addresses(tx.access_list)

\* C34 witness: a VM built at Cancun, the fork named by two of the three
\* guards, has the Cancun ceiling: its last precompile is touched and the
\* address above it is not.
C34_Witness ==
    /\ pc = "new"
    /\ env.fork = "Cancun"
    /\ Address_from_low_u64_be(SIZE_PRECOMPILES_CANCUN) \in Touched
    /\ Address_from_low_u64_be(SIZE_PRECOMPILES_CANCUN + 1) \notin Touched

(***************************************************************************)
(* The address of a Create transaction, checked under Spec.                *)
(***************************************************************************)
\* The address derived from the sender and the nonce the sender had when the
\* VM was built, before any hook ran.
DerivedCreateAddress == calculate_create_address(env.origin, get_account(h_pre, env.origin).nonce)

\* C35: for a Create, the root frame's recipient is the address derived in
\* VM::new from the nonce the sender had before any prepare hook ran, and it
\* is this address, and no other, that execute loads and checks for
\* occupancy and, when it is free, credits with the message value and
\* increments the nonce of (from SpuriousDragon on), although the prepare
\* hook has incremented the sender nonce by then.
C35_CreateAddressFromConstruction ==
    /\ (Constructed /\ is_create /\ pc \in {"new", "prepare", "clear", "create"})
          => RootFrame.to = DerivedCreateAddress
    /\ h_last.op = "create" =>
          LET a == DerivedCreateAddress
              before == h_last.cache_before
              account == get_account(before, a)
          IN /\ h_last.address = a
             /\ get_account(before, env.origin).nonce = get_account(h_pre, env.origin).nonce + 1
             /\ calculate_create_address(env.origin, get_account(before, env.origin).nonce) # a
             /\ \A x \in Addr \ {a} : cache[x] = before[x]
             /\ IF has_code_or_nonce(account)
                THEN /\ cache[a] = account
                     /\ report.result = Revert("AddressAlreadyOccupied")
                ELSE /\ cache[a].balance = account.balance + tx.value
                     /\ cache[a].nonce = account.nonce + (IF env.fork = "Tangerine" THEN 0 ELSE 1)
                     /\ pc = "push_backup"

\* C35 witness: a Create with value whose address was free has been credited
\* and given nonce 1 at the address derived from the sender's nonce 0, while
\* the sender's nonce is 1.
C35_Witness ==
    /\ pc = "push_backup"
    /\ h_last.op = "create"
    /\ is_create
    /\ tx.value = 1
    /\ get_account(h_pre, env.origin).nonce = 0
    /\ get_account(cache, env.origin).nonce = 1
    /\ RootFrame.to = calculate_create_address(env.origin, 0)
    /\ cache[RootFrame.to].balance = 1
    /\ cache[RootFrame.to].nonce = 1

(***************************************************************************)
(* The initial substate, checked under SpecNew.                            *)
(***************************************************************************)
\* C39: right after a successful VM::new the substate is well-formed: no
\* account is marked for self-destruction, every created account is touched,
\* and every address with an entry in touched_storage_slots is touched.
C39_InitialSubstateWellFormed ==
    pc = "new" =>
        /\ accrued_substate.selfdestruct_set = {}
        /\ accrued_substate.created_accounts \subseteq accrued_substate.touched_accounts
        /\ \A a \in DOMAIN accrued_substate.touched_storage_slots :
              a \in accrued_substate.touched_accounts

\* C39 witness: a VM built for a Create whose access list names an address
\* that is neither the origin, the coinbase, the new contract nor a
\* precompile: the substate has a created account and warm slots there.
C39_Witness ==
    /\ pc = "new"
    /\ is_create
    /\ accrued_substate.created_accounts = {RootFrame.to}
    /\ \E a \in DOMAIN accrued_substate.touched_storage_slots :
          /\ a \notin {env.origin, env.coinbase, RootFrame.to}
          /\ a \notin PrecompilesOf(env.fork)
          /\ accrued_substate.touched_storage_slots[a] # {}

(***************************************************************************)
(* Properties of the JSON-RPC server, checked under SpecRpc.               *)
(***************************************************************************)
\* The requests answered so far, each with its response.
Answered ==
    IF rpc.endpoint = "http" /\ rpc.body.kind = "multiple"
    THEN {<<rpc.body.requests[k], rpc.responses[k]>> : k \in 1..Len(rpc.responses)}
    ELSE IF rpc.body.kind = "single" /\ rpc.stage = "responded"
    THEN {<<rpc.body.request, rpc.response>>}
    ELSE {}
\* The response is the error response for the given error.
IsErrorResponse(response, code, message) ==
    /\ DOMAIN response = {"id", "jsonrpc", "error"}
    /\ response.error = [code |-> code, message |-> message]
\* The methods with a handler in the table of a namespace.
MethodsOf(ns) ==
    CASE ns = "Eth" -> EthMethods
      [] ns = "Engine" -> EngineMethods
      [] ns = "Admin" -> AdminMethods
      [] ns = "Debug" -> DebugMethods
      [] ns = "Web3" -> Web3Methods
      [] ns = "Net" -> NetMethods
\* The namespaces an endpoint dispatches.
Dispatched(endpoint) ==
    IF endpoint = "http" THEN {"Eth", "Admin", "Debug", "Web3", "Net"} ELSE {"Engine", "Eth"}
\* The endpoint got as far as dispatching the request.
Mapped == rpc.endpoint = "http" \/ rpc.authenticate = "ok"

\* C36: the HTTP endpoint never invokes a handler of the engine table, and
\* answers a request of the Engine namespace with the Internal error; the
\* authenticated endpoint invokes handlers of the engine and eth tables only,
\* and answers a request of any other namespace, or of none that parses,
\* with MethodNotFound; a method without a handler in the table of the
\* namespace it was dispatched to is answered with MethodNotFound carrying
\* the method name.
C36_NamespacesKeptApart ==
    rpc.is_some =>
      /\ rpc.endpoint = "http" =>
            \A k \in 1..Len(rpc.calls) :
               rpc.calls[k].table # "engine" /\ rpc.calls[k].handler \notin EngineMethods
      /\ rpc.endpoint = "authrpc" =>
            \A k \in 1..Len(rpc.calls) : rpc.calls[k].table \in {"engine", "eth"}
      /\ \A p \in Answered :
            LET req == p[1]
                response == p[2]
            IN /\ (rpc.endpoint = "http" /\ req.namespace = [ok |-> TRUE, value |-> "Engine"])
                    => IsErrorResponse(response, "Internal",
                                       "Engine namespace not allowed in map_http_requests")
               /\ (/\ rpc.endpoint = "authrpc" /\ rpc.authenticate = "ok"
                   /\ (~req.namespace.ok \/ req.namespace.value \notin {"Engine", "Eth"}))
                    => IsErrorResponse(response, "MethodNotFound", req.method)
               /\ (/\ Mapped /\ req.namespace.ok
                   /\ req.namespace.value \in Dispatched(rpc.endpoint)
                   /\ req.method \notin MethodsOf(req.namespace.value))
                    => IsErrorResponse(response, "MethodNotFound", req.method)

\* C36 witness: a batch on the HTTP endpoint whose engine request was
\* answered with the Internal error and whose unknown eth method was
\* answered with MethodNotFound, no handler having run.
C36_Witness ==
    /\ rpc.is_some /\ rpc.endpoint = "http" /\ rpc.stage = "responded"
    /\ rpc.body.kind = "multiple" /\ Len(rpc.body.requests) = 2
    /\ rpc.body.requests[1].method = "engine_getPayloadV1"
    /\ rpc.body.requests[2].method = "eth_unknownMethod"
    /\ rpc.response[1].error.code = "Internal"
    /\ rpc.response[2].error = [code |-> "MethodNotFound", message |-> "eth_unknownMethod"]
    /\ rpc.calls = <<>>

\* C37: on the authenticated endpoint a handler is invoked only once
\* authenticate has accepted the header; when it rejects it, the response is
\* the authentication error with the request's id and no handler is invoked;
\* a body that is no request is answered with BadParams under the
\* empty-string id, authenticate not having been called.
C37_AuthenticateBeforeHandlers ==
    (rpc.is_some /\ rpc.endpoint = "authrpc") =>
      /\ rpc.calls # <<>> => rpc.authenticate = "ok"
      /\ (rpc.stage = "responded" /\ rpc.authenticate = "failed") =>
            /\ rpc.calls = <<>>
            /\ rpc.response = [id |-> rpc.body.request.id, jsonrpc |-> "2.0",
                               error |-> [code |-> "AuthenticationError", message |-> "authenticate"]]
      /\ (rpc.stage = "responded" /\ rpc.body.kind # "single") =>
            /\ rpc.response = [id |-> [string |-> ""], jsonrpc |-> "2.0",
                               error |-> [code |-> "BadParams", message |-> "Invalid request body"]]
            /\ rpc.authenticate = "not_called"
            /\ rpc.calls = <<>>

\* C37 witness: an engine request whose header authenticate rejected has
\* been answered under its own id.
C37_Witness ==
    /\ rpc.is_some /\ rpc.endpoint = "authrpc" /\ rpc.stage = "responded"
    /\ rpc.authenticate = "failed"
    /\ rpc.body.kind = "single"
    /\ rpc.body.request.method = "engine_getPayloadV1"
    /\ rpc.response.id = rpc.body.request.id
    /\ rpc.response.id = [number |-> 1]

\* C38: while and after a batch is handled on the HTTP endpoint, the k-th
\* response is the response to the k-th request and carries its id, the
\* handlers invoked are those of the requests handled so far, in the order of
\* the requests, and the answer is the array of one response per request,
\* whether or not some of them are error responses.
C38_BatchInOrder ==
    (rpc.is_some /\ rpc.endpoint = "http" /\ rpc.body.kind = "multiple") =>
      LET reqs == rpc.body.requests
          done == rpc.responses
          served(r) == r.namespace.ok /\ r.namespace.value \in {"Eth", "Admin", "Debug", "Web3", "Net"}
                         /\ r.method \in MethodsOf(r.namespace.value)
          expected == SelectSeq(SubSeq(reqs, 1, Len(done)), served)
      IN /\ Len(done) <= Len(reqs)
         /\ rpc.stage = "batch" => Len(done) = rpc.i - 1
         /\ \A k \in 1..Len(done) :
               /\ done[k].id = reqs[k].id
               /\ ~served(reqs[k]) => "error" \in DOMAIN done[k]
         /\ Len(rpc.calls) = Len(expected)
         /\ \A j \in 1..Len(expected) :
               rpc.calls[j].handler = expected[j].method /\ rpc.calls[j].id = expected[j].id
         /\ rpc.stage = "responded" => (rpc.response = done /\ Len(rpc.response) = Len(reqs))

\* C38 witness: a batch of two requests with different ids has been answered:
\* the first with an error response, the second, whose handler ran after,
\* with a result.
C38_Witness ==
    /\ rpc.is_some /\ rpc.endpoint = "http" /\ rpc.stage = "responded"
    /\ rpc.body.kind = "multiple" /\ Len(rpc.body.requests) = 2
    /\ rpc.body.requests[1].id # rpc.body.requests[2].id
    /\ Len(rpc.response) = 2
    /\ "error" \in DOMAIN rpc.response[1]
    /\ "result" \in DOMAIN rpc.response[2]
    /\ rpc.response[1].id = rpc.body.requests[1].id
    /\ rpc.response[2].id = rpc.body.requests[2].id
    /\ Len(rpc.calls) >= 1
    /\ rpc.calls[Len(rpc.calls)].id = rpc.body.requests[2].id

====
